---- MODULE Spec2Model ----
(***************************************************************************)
(* Model of pipeline/sources/param_counter.py: config-based parameter      *)
(* counting and precision detection for the registered MoE architectures.  *)
(*                                                                         *)
(* A configuration (a parsed config.json, a Python dict) is a function     *)
(* whose DOMAIN is the set of keys present.  Integer fields hold naturals; *)
(* a JSON null in an integer field is the value Null.  An f-string error   *)
(* message is a record: its template (kind) and the values it interpolates.*)
(***************************************************************************)
EXTENDS Integers, Sequences, FiniteSets, TLC

\* ------------------------------------------------------------------------
\* Bounds of the explored input space
\* ------------------------------------------------------------------------

\* integer fields are edited to values in 0..MaxVal
MaxVal == 2

\* ------------------------------------------------------------------------
\* Values
\* ------------------------------------------------------------------------

\* Python None stored under an integer key (JSON null)
Null == -1

\* dense_layers_key / mtp_key = None in a MoEFieldMapping
NoKey == ""

\* ------------------------------------------------------------------------
\* Public data classes
\* ------------------------------------------------------------------------

AttentionType == {"mla", "gqa"}

MoEFieldMapping(ec, se, cnt, ei, dl, mtp, np) ==
    [expert_count_key |-> ec, shared_expert_key |-> se,
     shared_expert_is_count |-> cnt, expert_intermediate_key |-> ei,
     dense_layers_key |-> dl, mtp_key |-> mtp, num_mlp_projections |-> np]

ParamCountResult(total, active, routed, mt, nl, nmoe, ndense, nmamba, nattn) ==
    [ok |-> TRUE, total_params |-> total, active_params |-> active,
     routed_expert_params |-> routed, model_type |-> mt, num_layers |-> nl,
     num_moe_layers |-> nmoe, num_dense_layers |-> ndense,
     num_mamba_layers |-> nmamba, num_attention_layers |-> nattn]

\* a raised exception: its Python type, the message template, and the
\* values the message interpolates (a name, what was found, numbers)
RaisedWith(exc, kind, name, found, nums) ==
    [ok |-> FALSE, exc |-> exc, kind |-> kind, name |-> name, found |-> found,
     nums |-> nums]

Raised(exc, kind, name, found) == RaisedWith(exc, kind, name, found, <<>>)

\* ------------------------------------------------------------------------
\* Multimodal wrapper handling
\* ------------------------------------------------------------------------

MULTIMODAL_MODEL_TYPES == {"kimi_k25"}

\* config.get("model_type", "")
ModelTypeOf(config) ==
    IF "model_type" \in DOMAIN config THEN config["model_type"] ELSE ""

\* The value under 'text_config' is a JSON value tagged with its Python
\* type: [type |-> "dict", value |-> <config>], [type |-> "str"], ...;
\* a JSON null has type "NoneType".
TextConfigFound(config) ==
    IF "text_config" \notin DOMAIN config THEN "missing"
    ELSE IF config["text_config"].type = "NoneType" THEN "missing"
    ELSE config["text_config"].type

resolve_text_config(config) ==
    IF ModelTypeOf(config) \in MULTIMODAL_MODEL_TYPES
    THEN IF TextConfigFound(config) = "dict"
         THEN [ok |-> TRUE, config |-> config["text_config"].value]
         ELSE Raised("ValueError", "requires_text_config",
                     ModelTypeOf(config), TextConfigFound(config))
    ELSE [ok |-> TRUE, config |-> config]

\* ------------------------------------------------------------------------
\* Architecture registry
\* ------------------------------------------------------------------------

DeepSeekMapping ==
    MoEFieldMapping("n_routed_experts", "n_shared_experts", TRUE,
                    "moe_intermediate_size", "first_k_dense_replace",
                    "num_nextn_predict_layers", 3)

QwenMapping ==
    MoEFieldMapping("num_experts", "shared_expert_intermediate_size", FALSE,
                    "moe_intermediate_size", NoKey, NoKey, 3)

MiniMaxMapping ==
    MoEFieldMapping("num_local_experts", "shared_intermediate_size", FALSE,
                    "intermediate_size", NoKey, "num_mtp_modules", 3)

NemotronMapping ==
    MoEFieldMapping("n_routed_experts", "moe_shared_expert_intermediate_size",
                    FALSE, "moe_intermediate_size", NoKey, NoKey, 2)

KNOWN_ARCHITECTURES ==
    [deepseek_v32 |-> [attn |-> "mla", mapping |-> DeepSeekMapping],
     kimi_k2      |-> [attn |-> "mla", mapping |-> DeepSeekMapping],
     glm4_moe     |-> [attn |-> "gqa", mapping |-> DeepSeekMapping],
     qwen3_moe    |-> [attn |-> "gqa", mapping |-> QwenMapping],
     minimax_m2   |-> [attn |-> "gqa", mapping |-> MiniMaxMapping],
     nemotron_h   |-> [attn |-> "gqa", mapping |-> NemotronMapping],
     glm_moe_dsa  |-> [attn |-> "mla", mapping |-> DeepSeekMapping],
     qwen3_next   |-> [attn |-> "gqa", mapping |-> QwenMapping]]

\* ------------------------------------------------------------------------
\* Helpers: fallible operations
\*
\* Each cost function is modelled by two operators: <f>_steps, the fallible
\* operations it executes in program order, and <f>, the value it returns
\* when none of them fails.  The outcome of a call is the first failing
\* step, or the value.
\* ------------------------------------------------------------------------

Step(op, key) == [op |-> op, key |-> key]

\* _require(config, key)
Require(key) == Step("require", key)

\* hidden // n_heads
FloorDivBy(key) == Step("floordiv", key)

\* arithmetic on config.get(key, default): a None operand is a TypeError
IntOperand(key) == Step("int_operand", key)

\* _require: val = config.get(key); val is None
IsMissing(config, key) ==
    \/ key \notin DOMAIN config
    \/ config[key] = Null

\* _require: return int(val); integer fields hold Python ints
_require(config, key) == config[key]

\* variant: the check only rejects a pattern longer than the layer count
PatternLengthDiffers_OnlyLonger(config) ==
    Len(config["hybrid_override_pattern"]) > _require(config, "num_hidden_layers")

\* len(pattern) != n_layers
PatternLengthDiffers(config) ==
    Len(config["hybrid_override_pattern"]) # _require(config, "num_hidden_layers")

\* the exception a step raises on this config, or [ok |-> TRUE]
StepOutcome(config, step) ==
    IF step.op = "require"
    THEN IF IsMissing(config, step.key)
         THEN Raised("ValueError", "required_field_missing", step.key, "")
         ELSE [ok |-> TRUE]
    ELSE IF step.op = "floordiv"
    THEN IF config[step.key] = 0
         THEN Raised("ZeroDivisionError", "division_by_zero", step.key, "")
         ELSE [ok |-> TRUE]
    ELSE IF step.op = "int_operand"
    THEN IF step.key \in DOMAIN config /\ config[step.key] = Null
         THEN Raised("TypeError", "none_operand", step.key, "")
         ELSE [ok |-> TRUE]
    ELSE IF step.op = "pattern_length"
    THEN IF PatternLengthDiffers(config)
         THEN RaisedWith("ValueError", "pattern_length_mismatch", "", "",
                         <<Len(config["hybrid_override_pattern"]),
                           config["num_hidden_layers"]>>)
         ELSE [ok |-> TRUE]
    ELSE [ok |-> TRUE]

RECURSIVE FirstFailure(_, _, _)
FirstFailure(config, steps, i) ==
    IF i > Len(steps) THEN [ok |-> TRUE]
    ELSE IF ~StepOutcome(config, steps[i]).ok THEN StepOutcome(config, steps[i])
    ELSE FirstFailure(config, steps, i + 1)

\* the keys a step sequence reads through _require
RequiredKeys(steps) == {steps[i].key : i \in {j \in 1..Len(steps) : steps[j].op = "require"}}

\* ------------------------------------------------------------------------
\* Attention parameter functions (per layer)
\* ------------------------------------------------------------------------

_mla_attention_steps ==
    <<Require("hidden_size"), Require("num_attention_heads"),
      Require("kv_lora_rank"), Require("q_lora_rank"),
      Require("qk_nope_head_dim"), Require("qk_rope_head_dim"),
      Require("v_head_dim")>>

\* variant: the two low-rank normalizations are left out of the cost
_mla_attention_params_NoNorms(config) ==
    LET hidden == _require(config, "hidden_size")
        n_heads == _require(config, "num_attention_heads")
        kv_lora_rank == _require(config, "kv_lora_rank")
        q_lora_rank == _require(config, "q_lora_rank")
        qk_nope == _require(config, "qk_nope_head_dim")
        qk_rope == _require(config, "qk_rope_head_dim")
        v_head == _require(config, "v_head_dim")
    IN  hidden * q_lora_rank + q_lora_rank * n_heads * (qk_nope + qk_rope)
        + hidden * (kv_lora_rank + qk_rope)
        + kv_lora_rank * n_heads * (qk_nope + v_head) + n_heads * v_head * hidden

_mla_attention_params(config) ==
    LET hidden == _require(config, "hidden_size")
        n_heads == _require(config, "num_attention_heads")
        kv_lora_rank == _require(config, "kv_lora_rank")
        q_lora_rank == _require(config, "q_lora_rank")
        qk_nope == _require(config, "qk_nope_head_dim")
        qk_rope == _require(config, "qk_rope_head_dim")
        v_head == _require(config, "v_head_dim")
        q_a_proj == hidden * q_lora_rank
        q_a_norm == q_lora_rank
        q_b_proj == q_lora_rank * n_heads * (qk_nope + qk_rope)
        kv_a_proj == hidden * (kv_lora_rank + qk_rope)
        kv_a_norm == kv_lora_rank
        kv_b_proj == kv_lora_rank * n_heads * (qk_nope + v_head)
        o_proj == n_heads * v_head * hidden
    IN  q_a_proj + q_a_norm + q_b_proj + kv_a_proj + kv_a_norm + kv_b_proj + o_proj

\* config.get("head_dim", hidden // n_heads): the default is evaluated
\* before the lookup, so the division happens whether or not head_dim is set
_gqa_attention_steps ==
    <<Require("hidden_size"), Require("num_attention_heads"),
      Require("num_key_value_heads"), FloorDivBy("num_attention_heads"),
      IntOperand("head_dim")>>

HeadDim(config) ==
    IF "head_dim" \in DOMAIN config
    THEN config["head_dim"]
    ELSE _require(config, "hidden_size") \div _require(config, "num_attention_heads")

\* variant: the value projection uses v_head_dim when the config carries it
_gqa_attention_params_VHeadDim(config) ==
    LET hidden == _require(config, "hidden_size")
        n_heads == _require(config, "num_attention_heads")
        n_kv_heads == _require(config, "num_key_value_heads")
        head_dim == HeadDim(config)
        v_dim == IF "v_head_dim" \in DOMAIN config THEN config["v_head_dim"] ELSE head_dim
        q_proj == hidden * (n_heads * head_dim)
        k_proj == hidden * (n_kv_heads * head_dim)
        v_proj == hidden * (n_kv_heads * v_dim)
        o_proj == (n_heads * head_dim) * hidden
    IN  q_proj + k_proj + v_proj + o_proj

\* variant: keys and values are projected for every query head
_gqa_attention_params_FullKv(config) ==
    LET hidden == _require(config, "hidden_size")
        n_heads == _require(config, "num_attention_heads")
        head_dim == HeadDim(config)
    IN  4 * (hidden * (n_heads * head_dim))

_gqa_attention_params(config) ==
    LET hidden == _require(config, "hidden_size")
        n_heads == _require(config, "num_attention_heads")
        n_kv_heads == _require(config, "num_key_value_heads")
        head_dim == HeadDim(config)
        q_proj == hidden * (n_heads * head_dim)
        k_proj == hidden * (n_kv_heads * head_dim)
        v_proj == hidden * (n_kv_heads * head_dim)
        o_proj == (n_heads * head_dim) * hidden
    IN  q_proj + k_proj + v_proj + o_proj

\* index_n_heads is None or index_head_dim is None
DsaAbsent(config) ==
    \/ IsMissing(config, "index_n_heads")
    \/ IsMissing(config, "index_head_dim")

_dsa_indexer_steps(config) ==
    IF DsaAbsent(config) THEN <<>> ELSE <<Require("hidden_size")>>

_dsa_indexer_params(config) ==
    IF DsaAbsent(config) THEN 0
    ELSE LET hidden == _require(config, "hidden_size")
             index_n_heads == config["index_n_heads"]
             index_head_dim == config["index_head_dim"]
             wq_b == hidden * (index_n_heads * index_head_dim)
             wk == hidden * (index_n_heads * index_head_dim)
             weights_proj == (index_n_heads * index_head_dim) * index_n_heads
             k_norm == 2 * index_head_dim
         IN  wq_b + wk + weights_proj + k_norm

_qwen3_next_linear_attn_steps ==
    <<Require("hidden_size"), Require("num_attention_heads"),
      FloorDivBy("num_attention_heads"),
      Require("linear_num_key_heads"), Require("linear_key_head_dim"),
      Require("linear_num_value_heads"), Require("linear_value_head_dim"),
      Require("linear_conv_kernel_dim"), IntOperand("head_dim")>>

_qwen3_next_linear_attn_params(config) ==
    LET hidden == _require(config, "hidden_size")
        n_attn_heads == _require(config, "num_attention_heads")
        head_dim == HeadDim(config)
        linear_n_key_heads == _require(config, "linear_num_key_heads")
        linear_key_head_dim == _require(config, "linear_key_head_dim")
        linear_n_value_heads == _require(config, "linear_num_value_heads")
        linear_value_head_dim == _require(config, "linear_value_head_dim")
        conv_kernel == _require(config, "linear_conv_kernel_dim")
        q_dim == n_attn_heads * head_dim
        k_dim == linear_n_key_heads * linear_key_head_dim
        v_dim == linear_n_value_heads * linear_value_head_dim
        z_dim == n_attn_heads * head_dim
        in_proj_qkvz == hidden * (q_dim + k_dim + v_dim + z_dim)
        in_proj_ba == hidden * (2 * linear_n_key_heads)
        d_conv == v_dim + k_dim
        conv1d == d_conv * conv_kernel + d_conv
        out_proj == v_dim * hidden
        norm == v_dim
        a_log == n_attn_heads
        dt_bias == n_attn_heads
    IN  in_proj_qkvz + in_proj_ba + conv1d + out_proj + norm + a_log + dt_bias

\* ------------------------------------------------------------------------
\* MLP / MoE parameter functions
\* ------------------------------------------------------------------------

_dense_mlp_params(hidden, intermediate, num_projections) ==
    num_projections * hidden * intermediate

\* default argument of _dense_mlp_params
DefaultProjections == 3

_moe_layer_steps(mapping) ==
    <<Require("hidden_size"), Require(mapping.expert_count_key),
      Require(mapping.expert_intermediate_key),
      Require(mapping.shared_expert_key)>>

\* variant: the router gate is sized by the experts counted, not by all
_moe_layer_params_RouterPerActive(config, mapping, num_active_experts) ==
    LET hidden == _require(config, "hidden_size")
        n_experts == _require(config, mapping.expert_count_key)
        expert_intermediate == _require(config, mapping.expert_intermediate_key)
        n_proj == mapping.num_mlp_projections
        active == IF num_active_experts # Null THEN num_active_experts ELSE n_experts
        shared_val == _require(config, mapping.shared_expert_key)
    IN  active * _dense_mlp_params(hidden, expert_intermediate, n_proj)
        + hidden * active
        + (IF mapping.shared_expert_is_count
           THEN shared_val * _dense_mlp_params(hidden, expert_intermediate, n_proj)
           ELSE IF shared_val > 0 THEN _dense_mlp_params(hidden, shared_val, n_proj)
           ELSE 0)

\* variant: the shared-expert field is read as a count for every architecture
_moe_layer_params_SharedAsCount(config, mapping, num_active_experts) ==
    LET hidden == _require(config, "hidden_size")
        n_experts == _require(config, mapping.expert_count_key)
        expert_intermediate == _require(config, mapping.expert_intermediate_key)
        n_proj == mapping.num_mlp_projections
        active == IF num_active_experts # Null THEN num_active_experts ELSE n_experts
        shared_val == _require(config, mapping.shared_expert_key)
    IN  active * _dense_mlp_params(hidden, expert_intermediate, n_proj)
        + hidden * n_experts
        + shared_val * _dense_mlp_params(hidden, expert_intermediate, n_proj)

\* num_active_experts = Null stands for the default argument None
_moe_layer_params(config, mapping, num_active_experts) ==
    LET hidden == _require(config, "hidden_size")
        n_experts == _require(config, mapping.expert_count_key)
        expert_intermediate == _require(config, mapping.expert_intermediate_key)
        n_proj == mapping.num_mlp_projections
        active == IF num_active_experts # Null THEN num_active_experts ELSE n_experts
        routed == active * _dense_mlp_params(hidden, expert_intermediate, n_proj)
        router == hidden * n_experts
        shared_val == _require(config, mapping.shared_expert_key)
        shared == IF mapping.shared_expert_is_count
                  THEN shared_val * _dense_mlp_params(hidden, expert_intermediate, n_proj)
                  ELSE IF shared_val > 0
                       THEN _dense_mlp_params(hidden, shared_val, n_proj)
                       ELSE 0
    IN  routed + router + shared

\* ------------------------------------------------------------------------
\* Mamba2 / hybrid architecture helpers
\* ------------------------------------------------------------------------

_mamba2_layer_steps ==
    <<Require("hidden_size"), Require("mamba_num_heads"),
      Require("mamba_head_dim"), Require("ssm_state_size"),
      Require("conv_kernel"), IntOperand("n_group")>>

_mamba2_layer_params(config) ==
    LET hidden == _require(config, "hidden_size")
        num_heads == _require(config, "mamba_num_heads")
        head_dim == _require(config, "mamba_head_dim")
        ssm_state == _require(config, "ssm_state_size")
        n_group == IF "n_group" \in DOMAIN config THEN config["n_group"] ELSE 1
        conv_kernel == _require(config, "conv_kernel")
        d_inner == num_heads * head_dim
        in_proj == hidden * (2 * d_inner + 2 * n_group * ssm_state + num_heads)
        conv1d == d_inner * conv_kernel + d_inner
        dt_bias == num_heads
        a_log == num_heads
        d_param == num_heads
        inner_norm == d_inner
        out_proj == d_inner * hidden
    IN  in_proj + conv1d + dt_bias + a_log + d_param + inner_norm + out_proj

\* lm_head = 0 if config.get("tie_word_embeddings", False) else vocab * hidden
Tied(config) ==
    IF "tie_word_embeddings" \in DOMAIN config
    THEN config["tie_word_embeddings"]
    ELSE FALSE

\* variant: the output head is counted whether or not embeddings are tied
lm_head_params_AlwaysUntied(config) ==
    _require(config, "vocab_size") * _require(config, "hidden_size")

lm_head_params(config) ==
    IF Tied(config) THEN 0
    ELSE _require(config, "vocab_size") * _require(config, "hidden_size")

\* ------------------------------------------------------------------------
\* Pattern-hybrid composer (_count_hybrid_params)
\* ------------------------------------------------------------------------

attn_fn_steps(attn_type) ==
    IF attn_type = "mla" THEN _mla_attention_steps ELSE _gqa_attention_steps

attn_fn(config, attn_type) ==
    IF attn_type = "mla" THEN _mla_attention_params(config)
    ELSE _gqa_attention_params(config)

\* variant: only "E" selects an MoE layer, any other character a dense one
LayerKind_OnlyE(char) ==
    IF char = "M" THEN "mamba"
    ELSE IF char = "*" THEN "attention"
    ELSE IF char = "E" THEN "moe"
    ELSE "dense"

\* the layer kind a pattern character selects
LayerKind(char) ==
    IF char = "M" THEN "mamba"
    ELSE IF char = "*" THEN "attention"
    ELSE IF char = "-" THEN "dense"
    ELSE "moe"

\* fallible operations of one iteration of the loop over the pattern
HybridLayerSteps(char, attn_type, mapping) ==
    IF LayerKind(char) = "mamba" THEN _mamba2_layer_steps
    ELSE IF LayerKind(char) = "attention" THEN attn_fn_steps(attn_type)
    ELSE IF LayerKind(char) = "dense" THEN <<Require("intermediate_size")>>
    ELSE _moe_layer_steps(mapping) \o _moe_layer_steps(mapping)
         \o <<Require(mapping.expert_count_key),
              Require(mapping.expert_intermediate_key)>>

RECURSIVE HybridLoopSteps(_, _, _, _)
HybridLoopSteps(pattern, i, attn_type, mapping) ==
    IF i > Len(pattern) THEN <<>>
    ELSE HybridLayerSteps(pattern[i], attn_type, mapping)
         \o HybridLoopSteps(pattern, i + 1, attn_type, mapping)

_count_hybrid_steps(config, attn_type, mapping) ==
    <<Require("hidden_size"), Require("vocab_size"),
      Require("num_hidden_layers"), Require("num_experts_per_tok"),
      Step("pattern_length", "hybrid_override_pattern")>>
    \o HybridLoopSteps(config["hybrid_override_pattern"], 1, attn_type, mapping)

\* what one layer adds to total_layer_params (active = FALSE) or to
\* active_layer_params (active = TRUE): norm_params + mixer
HybridLayerParams(config, char, attn_type, mapping, active) ==
    LET hidden == _require(config, "hidden_size")
        norm_params == hidden
        n_proj == mapping.num_mlp_projections
    IN  IF LayerKind(char) = "mamba" THEN norm_params + _mamba2_layer_params(config)
        ELSE IF LayerKind(char) = "attention" THEN norm_params + attn_fn(config, attn_type)
        ELSE IF LayerKind(char) = "dense"
        THEN norm_params + _dense_mlp_params(hidden, _require(config, "intermediate_size"), n_proj)
        ELSE IF active
        THEN norm_params + _moe_layer_params(config, mapping,
                                             _require(config, "num_experts_per_tok"))
        ELSE norm_params + _moe_layer_params(config, mapping, Null)

\* what one layer adds to routed_expert_params
HybridLayerRouted(config, char, mapping) ==
    IF LayerKind(char) = "moe"
    THEN _require(config, mapping.expert_count_key)
         * _dense_mlp_params(_require(config, "hidden_size"),
                             _require(config, mapping.expert_intermediate_key),
                             mapping.num_mlp_projections)
    ELSE 0

RECURSIVE SumLayers(_, _, _, _, _, _)
SumLayers(config, pattern, i, attn_type, mapping, active) ==
    IF i > Len(pattern) THEN 0
    ELSE HybridLayerParams(config, pattern[i], attn_type, mapping, active)
         + SumLayers(config, pattern, i + 1, attn_type, mapping, active)

RECURSIVE SumRouted(_, _, _, _)
SumRouted(config, pattern, i, mapping) ==
    IF i > Len(pattern) THEN 0
    ELSE HybridLayerRouted(config, pattern[i], mapping)
         + SumRouted(config, pattern, i + 1, mapping)

\* num_mamba / num_attn / num_dense_mlp / num_moe
CountKind(pattern, kind) ==
    Cardinality({i \in 1..Len(pattern) : LayerKind(pattern[i]) = kind})

_count_hybrid_params(config, attn_type, mapping) ==
    LET hidden == _require(config, "hidden_size")
        vocab == _require(config, "vocab_size")
        n_layers == _require(config, "num_hidden_layers")
        pattern == config["hybrid_override_pattern"]
        total_layer_params == SumLayers(config, pattern, 1, attn_type, mapping, FALSE)
        active_layer_params == SumLayers(config, pattern, 1, attn_type, mapping, TRUE)
        embed == vocab * hidden
        lm_head == lm_head_params(config)
        final_norm == hidden
    IN  ParamCountResult(embed + lm_head + total_layer_params + final_norm,
                         embed + lm_head + active_layer_params + final_norm,
                         SumRouted(config, pattern, 1, mapping),
                         ModelTypeOf(config), n_layers,
                         CountKind(pattern, "moe"), CountKind(pattern, "dense"),
                         CountKind(pattern, "mamba"), CountKind(pattern, "attention"))

\* ------------------------------------------------------------------------
\* Interval-hybrid composer (_count_interval_hybrid_params)
\* ------------------------------------------------------------------------

_count_interval_hybrid_steps(mapping) ==
    <<Require("hidden_size"), Require("vocab_size"),
      Require("num_hidden_layers"), Require("num_experts_per_tok"),
      Require("full_attention_interval")>>
    \o _gqa_attention_steps \o _qwen3_next_linear_attn_steps
    \o _moe_layer_steps(mapping) \o _moe_layer_steps(mapping)
    \o <<Require(mapping.expert_count_key),
         Require(mapping.expert_intermediate_key)>>

\* variant: the loop index is tested without the 1-indexed shift
IsFullAttentionLayer_ZeroIndexed(i, interval) == i % interval = 0

\* loop index i in range(n_layers): (i + 1) % interval == 0
IsFullAttentionLayer(i, interval) == (i + 1) % interval = 0

_count_interval_hybrid_params(config, mapping) ==
    LET hidden == _require(config, "hidden_size")
        vocab == _require(config, "vocab_size")
        n_layers == _require(config, "num_hidden_layers")
        n_active_experts == _require(config, "num_experts_per_tok")
        interval == _require(config, "full_attention_interval")
        n_proj == mapping.num_mlp_projections
        gqa_per_layer == _gqa_attention_params(config)
        linear_per_layer == _qwen3_next_linear_attn_params(config)
        total_moe_per_layer == _moe_layer_params(config, mapping, Null)
        active_moe_per_layer == _moe_layer_params(config, mapping, n_active_experts)
        routed_per_moe_layer ==
            _require(config, mapping.expert_count_key)
            * _dense_mlp_params(hidden, _require(config, mapping.expert_intermediate_key), n_proj)
        full_layers == {i \in 0..(n_layers - 1) : IsFullAttentionLayer(i, interval)}
        num_full_attn == Cardinality(full_layers)
        num_linear_attn == n_layers - num_full_attn
        norms == 2 * hidden
        attn_total == num_full_attn * gqa_per_layer + num_linear_attn * linear_per_layer
        total_layer_params == n_layers * (norms + total_moe_per_layer) + attn_total
        active_layer_params == n_layers * (norms + active_moe_per_layer) + attn_total
        embed == vocab * hidden
        lm_head == lm_head_params(config)
        final_norm == hidden
    IN  ParamCountResult(embed + lm_head + total_layer_params + final_norm,
                         embed + lm_head + active_layer_params + final_norm,
                         n_layers * routed_per_moe_layer,
                         ModelTypeOf(config), n_layers, n_layers, 0,
                         num_linear_attn, num_full_attn)

\* ------------------------------------------------------------------------
\* Main entry point -- parameter counting
\* ------------------------------------------------------------------------

\* _require(config, mapping.dense_layers_key) if mapping.dense_layers_key else 0
DenseLayers(config, mapping) ==
    IF mapping.dense_layers_key # NoKey
    THEN _require(config, mapping.dense_layers_key)
    ELSE 0

\* variant: the DeepSeek module-count field is read for every architecture
MtpCount_AnyArchitecture(config, mapping) ==
    IF IsMissing(config, "num_nextn_predict_layers") THEN 0
    ELSE config["num_nextn_predict_layers"]

\* config.get(mapping.mtp_key, 0) or 0, when mapping.mtp_key is set
MtpCount(config, mapping) ==
    IF mapping.mtp_key = NoKey THEN 0
    ELSE IF IsMissing(config, mapping.mtp_key) THEN 0
    ELSE config[mapping.mtp_key]

\* routed-expert parameters of the uniform topology: _dense_mlp_params is
\* called without num_projections, i.e. with its default
UniformRoutedExpertParams(moe_layers, n_experts, hidden, expert_intermediate, mapping) ==
    moe_layers * n_experts
    * _dense_mlp_params(hidden, expert_intermediate, DefaultProjections)

_count_uniform_steps(config, attn_type, mapping) ==
    <<Require("hidden_size"), Require("vocab_size"),
      Require("num_hidden_layers"), Require("intermediate_size"),
      Require("num_experts_per_tok")>>
    \o (IF mapping.dense_layers_key # NoKey
        THEN <<Require(mapping.dense_layers_key)>> ELSE <<>>)
    \o attn_fn_steps(attn_type)
    \o <<Require(mapping.expert_count_key),
         Require(mapping.expert_intermediate_key)>>
    \o _dsa_indexer_steps(config)
    \o _moe_layer_steps(mapping) \o _moe_layer_steps(mapping)

_count_uniform_params(config, attn_type, mapping) ==
    LET hidden == _require(config, "hidden_size")
        vocab == _require(config, "vocab_size")
        n_layers == _require(config, "num_hidden_layers")
        intermediate == _require(config, "intermediate_size")
        n_active_experts == _require(config, "num_experts_per_tok")
        dense_layers == DenseLayers(config, mapping)
        moe_layers == n_layers - dense_layers
        mtp_count == MtpCount(config, mapping)
        attn_per_layer == attn_fn(config, attn_type)
        norms_per_layer == 2 * hidden
        embed == vocab * hidden
        lm_head == lm_head_params(config)
        final_norm == hidden
        n_experts == _require(config, mapping.expert_count_key)
        expert_intermediate == _require(config, mapping.expert_intermediate_key)
        routed_expert_params ==
            UniformRoutedExpertParams(moe_layers, n_experts, hidden,
                                      expert_intermediate, mapping)
        dsa_per_layer == _dsa_indexer_params(config)
        dense_block == attn_per_layer
                       + _dense_mlp_params(hidden, intermediate, DefaultProjections)
                       + norms_per_layer + dsa_per_layer
        moe_block == attn_per_layer + _moe_layer_params(config, mapping, Null)
                     + norms_per_layer + dsa_per_layer
        mtp_per_module == IF mtp_count > 0 THEN 2 * hidden * hidden + 4 * hidden ELSE 0
        mtp_total == IF mtp_count > 0 THEN mtp_count * mtp_per_module ELSE 0
        total == embed + lm_head + dense_layers * dense_block
                 + moe_layers * moe_block + final_norm + mtp_total
        active_moe_block == attn_per_layer
                            + _moe_layer_params(config, mapping, n_active_experts)
                            + norms_per_layer + dsa_per_layer
        active == embed + lm_head + dense_layers * dense_block
                  + moe_layers * active_moe_block + final_norm + mtp_total
    IN  ParamCountResult(total, active, routed_expert_params,
                         ModelTypeOf(config), n_layers, moe_layers,
                         dense_layers, 0, 0)

\* variant: the interval test comes before the pattern test
Topology_IntervalFirst(config) ==
    IF "full_attention_interval" \in DOMAIN config
       /\ config["full_attention_interval"] > 1 THEN "interval"
    ELSE IF "hybrid_override_pattern" \in DOMAIN config THEN "pattern"
    ELSE "uniform"

\* the layer topology count_params_from_config selects for a resolved
\* configuration of a registered architecture
Topology(config) ==
    IF "hybrid_override_pattern" \in DOMAIN config THEN "pattern"
    ELSE IF "full_attention_interval" \in DOMAIN config
            /\ config["full_attention_interval"] > 1 THEN "interval"
    ELSE "uniform"

\* fallible operations of the selected composer, in program order
ComposerSteps(config) ==
    LET arch == KNOWN_ARCHITECTURES[ModelTypeOf(config)]
    IN  IF Topology(config) = "pattern"
        THEN _count_hybrid_steps(config, arch.attn, arch.mapping)
        ELSE IF Topology(config) = "interval"
        THEN _count_interval_hybrid_steps(arch.mapping)
        ELSE _count_uniform_steps(config, arch.attn, arch.mapping)

ComposerValue(config) ==
    LET arch == KNOWN_ARCHITECTURES[ModelTypeOf(config)]
    IN  IF Topology(config) = "pattern"
        THEN _count_hybrid_params(config, arch.attn, arch.mapping)
        ELSE IF Topology(config) = "interval"
        THEN _count_interval_hybrid_params(config, arch.mapping)
        ELSE _count_uniform_params(config, arch.attn, arch.mapping)

\* count_params_from_config after the registry lookup has succeeded
CountRegistered(config) ==
    IF /\ "hybrid_override_pattern" \notin DOMAIN config
       /\ "full_attention_interval" \in DOMAIN config
       /\ config["full_attention_interval"] = Null
    THEN Raised("TypeError", "none_operand", "full_attention_interval", "")
    ELSE IF ~FirstFailure(config, ComposerSteps(config), 1).ok
    THEN FirstFailure(config, ComposerSteps(config), 1)
    ELSE ComposerValue(config)

\* variant: the core dimension hidden_size is read before the registry lookup
CountResolved_FieldsFirst(config) ==
    IF IsMissing(config, "hidden_size")
    THEN Raised("ValueError", "required_field_missing", "hidden_size", "")
    ELSE IF ModelTypeOf(config) \notin DOMAIN KNOWN_ARCHITECTURES
    THEN Raised("ValueError", "unknown_model_type", ModelTypeOf(config), "")
    ELSE CountRegistered(config)

\* count_params_from_config after resolve_text_config has succeeded
CountResolved(config) ==
    IF ModelTypeOf(config) \notin DOMAIN KNOWN_ARCHITECTURES
    THEN Raised("ValueError", "unknown_model_type", ModelTypeOf(config), "")
    ELSE CountRegistered(config)

count_params_from_config(raw_config) ==
    LET resolved == resolve_text_config(raw_config)
    IN  IF ~resolved.ok THEN resolved
        ELSE CountResolved(resolved.config)

\* ------------------------------------------------------------------------
\* Precision detection
\*
\* bytes_per_param is a float in the code; it is held here in eighths of a
\* byte (bytes_per_param * 8), which is exact for every value produced.
\* quantization_config is a dict; its config_groups is the sequence of the
\* groups in dict order, each group a dict that may hold a 'weights' dict.
\* ------------------------------------------------------------------------

\* A Python str whose characters are transformed (a weight type label, a
\* dtype_str) is held as the sequence of its code points, so that it can
\* hold every character.  Str(literal) is that sequence for a literal of
\* printable ASCII characters: low holds those from the space (code point
\* 32) to the underscore (95), high those from a (97) to the tilde (126),
\* both in code point order
Str(literal) ==
    LET low == " !\"#$%&'()*+,-./0123456789:;<=>?@ABCDEFGHIJKLMNOPQRSTUVWXYZ[\\]^_"
        high == "abcdefghijklmnopqrstuvwxyz{|}~"
        Ord(char) ==
            LET at == {j \in 1..Len(low) : SubSeq(low, j, j) = char}
            IN  IF at # {} THEN 31 + CHOOSE j \in at : TRUE
                ELSE 96 + CHOOSE j \in 1..Len(high) : SubSeq(high, j, j) = char
    IN  [i \in 1..Len(literal) |-> Ord(SubSeq(literal, i, i))]

PrecisionInfo(eighths, dtype_str, is_mixed) ==
    [ok |-> TRUE, bytes_per_param_x8 |-> eighths, dtype_str |-> dtype_str,
     is_mixed |-> is_mixed]

\* variant: only torch_dtype is consulted
DeclaredDtype_NoAlias(config) ==
    IF "torch_dtype" \in DOMAIN config /\ config["torch_dtype"] # ""
    THEN config["torch_dtype"]
    ELSE "None"

\* config.get("torch_dtype") or config.get("dtype"); None prints as 'None'
DeclaredDtype(config) ==
    IF "torch_dtype" \in DOMAIN config /\ config["torch_dtype"] # ""
    THEN config["torch_dtype"]
    ELSE IF "dtype" \in DOMAIN config THEN config["dtype"]
    ELSE "None"

dtype_map ==
    [bfloat16 |-> PrecisionInfo(16, Str("BF16"), FALSE),
     float16  |-> PrecisionInfo(16, Str("FP16"), FALSE),
     float32  |-> PrecisionInfo(32, Str("FP32"), FALSE)]

\* str.upper() on characters whose upper-case form is one character, from
\* the Unicode character database of the interpreter (14.0): <<lo, hi,
\* stride, delta>> says that the code points lo, lo + stride, ..., hi
\* become themselves plus delta
UpperRanges ==
    <<<<97, 122, 1, -32>>, <<181, 181, 1, 743>>, <<224, 246, 1, -32>>,
      <<248, 254, 1, -32>>, <<255, 255, 1, 121>>, <<257, 303, 2, -1>>,
      <<305, 305, 1, -232>>, <<307, 311, 2, -1>>, <<314, 328, 2, -1>>,
      <<331, 375, 2, -1>>, <<378, 382, 2, -1>>, <<383, 383, 1, -300>>,
      <<384, 384, 1, 195>>, <<387, 389, 2, -1>>, <<392, 392, 1, -1>>,
      <<396, 396, 1, -1>>, <<402, 402, 1, -1>>, <<405, 405, 1, 97>>,
      <<409, 409, 1, -1>>, <<410, 410, 1, 163>>, <<414, 414, 1, 130>>,
      <<417, 421, 2, -1>>, <<424, 424, 1, -1>>, <<429, 429, 1, -1>>,
      <<432, 432, 1, -1>>, <<436, 438, 2, -1>>, <<441, 441, 1, -1>>,
      <<445, 445, 1, -1>>, <<447, 447, 1, 56>>, <<453, 453, 1, -1>>,
      <<454, 454, 1, -2>>, <<456, 456, 1, -1>>, <<457, 457, 1, -2>>,
      <<459, 459, 1, -1>>, <<460, 460, 1, -2>>, <<462, 476, 2, -1>>,
      <<477, 477, 1, -79>>, <<479, 495, 2, -1>>, <<498, 498, 1, -1>>,
      <<499, 499, 1, -2>>, <<501, 501, 1, -1>>, <<505, 543, 2, -1>>,
      <<547, 563, 2, -1>>, <<572, 572, 1, -1>>, <<575, 576, 1, 10815>>,
      <<578, 578, 1, -1>>, <<583, 591, 2, -1>>, <<592, 592, 1, 10783>>,
      <<593, 593, 1, 10780>>, <<594, 594, 1, 10782>>, <<595, 595, 1, -210>>,
      <<596, 596, 1, -206>>, <<598, 599, 1, -205>>, <<601, 601, 1, -202>>,
      <<603, 603, 1, -203>>, <<604, 604, 1, 42319>>, <<608, 608, 1, -205>>,
      <<609, 609, 1, 42315>>, <<611, 611, 1, -207>>, <<613, 613, 1, 42280>>,
      <<614, 614, 1, 42308>>, <<616, 616, 1, -209>>, <<617, 617, 1, -211>>,
      <<618, 618, 1, 42308>>, <<619, 619, 1, 10743>>, <<620, 620, 1, 42305>>,
      <<623, 623, 1, -211>>, <<625, 625, 1, 10749>>, <<626, 626, 1, -213>>,
      <<629, 629, 1, -214>>, <<637, 637, 1, 10727>>, <<640, 640, 1, -218>>,
      <<642, 642, 1, 42307>>, <<643, 643, 1, -218>>, <<647, 647, 1, 42282>>,
      <<648, 648, 1, -218>>, <<649, 649, 1, -69>>, <<650, 651, 1, -217>>,
      <<652, 652, 1, -71>>, <<658, 658, 1, -219>>, <<669, 669, 1, 42261>>,
      <<670, 670, 1, 42258>>, <<837, 837, 1, 84>>, <<881, 883, 2, -1>>,
      <<887, 887, 1, -1>>, <<891, 893, 1, 130>>, <<940, 940, 1, -38>>,
      <<941, 943, 1, -37>>, <<945, 961, 1, -32>>, <<962, 962, 1, -31>>,
      <<963, 971, 1, -32>>, <<972, 972, 1, -64>>, <<973, 974, 1, -63>>,
      <<976, 976, 1, -62>>, <<977, 977, 1, -57>>, <<981, 981, 1, -47>>,
      <<982, 982, 1, -54>>, <<983, 983, 1, -8>>, <<985, 1007, 2, -1>>,
      <<1008, 1008, 1, -86>>, <<1009, 1009, 1, -80>>, <<1010, 1010, 1, 7>>,
      <<1011, 1011, 1, -116>>, <<1013, 1013, 1, -96>>, <<1016, 1016, 1, -1>>,
      <<1019, 1019, 1, -1>>, <<1072, 1103, 1, -32>>, <<1104, 1119, 1, -80>>,
      <<1121, 1153, 2, -1>>, <<1163, 1215, 2, -1>>, <<1218, 1230, 2, -1>>,
      <<1231, 1231, 1, -15>>, <<1233, 1327, 2, -1>>, <<1377, 1414, 1, -48>>,
      <<4304, 4346, 1, 3008>>, <<4349, 4351, 1, 3008>>, <<5112, 5117, 1, -8>>,
      <<7296, 7296, 1, -6254>>, <<7297, 7297, 1, -6253>>, <<7298, 7298, 1, -6244>>,
      <<7299, 7300, 1, -6242>>, <<7301, 7301, 1, -6243>>, <<7302, 7302, 1, -6236>>,
      <<7303, 7303, 1, -6181>>, <<7304, 7304, 1, 35266>>, <<7545, 7545, 1, 35332>>,
      <<7549, 7549, 1, 3814>>, <<7566, 7566, 1, 35384>>, <<7681, 7829, 2, -1>>,
      <<7835, 7835, 1, -59>>, <<7841, 7935, 2, -1>>, <<7936, 7943, 1, 8>>,
      <<7952, 7957, 1, 8>>, <<7968, 7975, 1, 8>>, <<7984, 7991, 1, 8>>,
      <<8000, 8005, 1, 8>>, <<8017, 8023, 2, 8>>, <<8032, 8039, 1, 8>>,
      <<8048, 8049, 1, 74>>, <<8050, 8053, 1, 86>>, <<8054, 8055, 1, 100>>,
      <<8056, 8057, 1, 128>>, <<8058, 8059, 1, 112>>, <<8060, 8061, 1, 126>>,
      <<8112, 8113, 1, 8>>, <<8126, 8126, 1, -7205>>, <<8144, 8145, 1, 8>>,
      <<8160, 8161, 1, 8>>, <<8165, 8165, 1, 7>>, <<8526, 8526, 1, -28>>,
      <<8560, 8575, 1, -16>>, <<8580, 8580, 1, -1>>, <<9424, 9449, 1, -26>>,
      <<11312, 11359, 1, -48>>, <<11361, 11361, 1, -1>>, <<11365, 11365, 1, -10795>>,
      <<11366, 11366, 1, -10792>>, <<11368, 11372, 2, -1>>, <<11379, 11379, 1, -1>>,
      <<11382, 11382, 1, -1>>, <<11393, 11491, 2, -1>>, <<11500, 11502, 2, -1>>,
      <<11507, 11507, 1, -1>>, <<11520, 11557, 1, -7264>>, <<11559, 11559, 1, -7264>>,
      <<11565, 11565, 1, -7264>>, <<42561, 42605, 2, -1>>, <<42625, 42651, 2, -1>>,
      <<42787, 42799, 2, -1>>, <<42803, 42863, 2, -1>>, <<42874, 42876, 2, -1>>,
      <<42879, 42887, 2, -1>>, <<42892, 42892, 1, -1>>, <<42897, 42899, 2, -1>>,
      <<42900, 42900, 1, 48>>, <<42903, 42921, 2, -1>>, <<42933, 42947, 2, -1>>,
      <<42952, 42954, 2, -1>>, <<42961, 42961, 1, -1>>, <<42967, 42969, 2, -1>>,
      <<42998, 42998, 1, -1>>, <<43859, 43859, 1, -928>>, <<43888, 43967, 1, -38864>>,
      <<65345, 65370, 1, -32>>, <<66600, 66639, 1, -40>>, <<66776, 66811, 1, -40>>,
      <<66967, 67003, 2, -39>>, <<66968, 66976, 2, -39>>, <<66980, 66992, 2, -39>>,
      <<66996, 67000, 2, -39>>, <<67004, 67004, 1, -39>>, <<68800, 68850, 1, -64>>,
      <<71872, 71903, 1, -32>>, <<93792, 93823, 1, -32>>, <<125218, 125251, 1, -34>>>>

\* str.upper() on characters whose upper-case form is longer than one
\* character: <<code point, upper-case form>> (223, the sharp s, gives SS)
UpperSpecial ==
    <<<<223, <<83, 83>>>>, <<329, <<700, 78>>>>, <<496, <<74, 780>>>>,
      <<912, <<921, 776, 769>>>>, <<944, <<933, 776, 769>>>>, <<1415, <<1333, 1362>>>>,
      <<7830, <<72, 817>>>>, <<7831, <<84, 776>>>>, <<7832, <<87, 778>>>>,
      <<7833, <<89, 778>>>>, <<7834, <<65, 702>>>>, <<8016, <<933, 787>>>>,
      <<8018, <<933, 787, 768>>>>, <<8020, <<933, 787, 769>>>>, <<8022, <<933, 787, 834>>>>,
      <<8064, <<7944, 921>>>>, <<8065, <<7945, 921>>>>, <<8066, <<7946, 921>>>>,
      <<8067, <<7947, 921>>>>, <<8068, <<7948, 921>>>>, <<8069, <<7949, 921>>>>,
      <<8070, <<7950, 921>>>>, <<8071, <<7951, 921>>>>, <<8072, <<7944, 921>>>>,
      <<8073, <<7945, 921>>>>, <<8074, <<7946, 921>>>>, <<8075, <<7947, 921>>>>,
      <<8076, <<7948, 921>>>>, <<8077, <<7949, 921>>>>, <<8078, <<7950, 921>>>>,
      <<8079, <<7951, 921>>>>, <<8080, <<7976, 921>>>>, <<8081, <<7977, 921>>>>,
      <<8082, <<7978, 921>>>>, <<8083, <<7979, 921>>>>, <<8084, <<7980, 921>>>>,
      <<8085, <<7981, 921>>>>, <<8086, <<7982, 921>>>>, <<8087, <<7983, 921>>>>,
      <<8088, <<7976, 921>>>>, <<8089, <<7977, 921>>>>, <<8090, <<7978, 921>>>>,
      <<8091, <<7979, 921>>>>, <<8092, <<7980, 921>>>>, <<8093, <<7981, 921>>>>,
      <<8094, <<7982, 921>>>>, <<8095, <<7983, 921>>>>, <<8096, <<8040, 921>>>>,
      <<8097, <<8041, 921>>>>, <<8098, <<8042, 921>>>>, <<8099, <<8043, 921>>>>,
      <<8100, <<8044, 921>>>>, <<8101, <<8045, 921>>>>, <<8102, <<8046, 921>>>>,
      <<8103, <<8047, 921>>>>, <<8104, <<8040, 921>>>>, <<8105, <<8041, 921>>>>,
      <<8106, <<8042, 921>>>>, <<8107, <<8043, 921>>>>, <<8108, <<8044, 921>>>>,
      <<8109, <<8045, 921>>>>, <<8110, <<8046, 921>>>>, <<8111, <<8047, 921>>>>,
      <<8114, <<8122, 921>>>>, <<8115, <<913, 921>>>>, <<8116, <<902, 921>>>>,
      <<8118, <<913, 834>>>>, <<8119, <<913, 834, 921>>>>, <<8124, <<913, 921>>>>,
      <<8130, <<8138, 921>>>>, <<8131, <<919, 921>>>>, <<8132, <<905, 921>>>>,
      <<8134, <<919, 834>>>>, <<8135, <<919, 834, 921>>>>, <<8140, <<919, 921>>>>,
      <<8146, <<921, 776, 768>>>>, <<8147, <<921, 776, 769>>>>, <<8150, <<921, 834>>>>,
      <<8151, <<921, 776, 834>>>>, <<8162, <<933, 776, 768>>>>, <<8163, <<933, 776, 769>>>>,
      <<8164, <<929, 787>>>>, <<8166, <<933, 834>>>>, <<8167, <<933, 776, 834>>>>,
      <<8178, <<8186, 921>>>>, <<8179, <<937, 921>>>>, <<8180, <<911, 921>>>>,
      <<8182, <<937, 834>>>>, <<8183, <<937, 834, 921>>>>, <<8188, <<937, 921>>>>,
      <<64256, <<70, 70>>>>, <<64257, <<70, 73>>>>, <<64258, <<70, 76>>>>,
      <<64259, <<70, 70, 73>>>>, <<64260, <<70, 70, 76>>>>, <<64261, <<83, 84>>>>,
      <<64262, <<83, 84>>>>, <<64275, <<1348, 1350>>>>, <<64276, <<1348, 1333>>>>,
      <<64277, <<1348, 1339>>>>, <<64278, <<1358, 1350>>>>, <<64279, <<1348, 1341>>>>>>

\* variant: only the letters a to z are upper-cased
UpperChar_AsciiOnly(char) ==
    IF 97 <= char /\ char <= 122 THEN <<char - 32>> ELSE <<char>>

\* str.upper() on one character: the form UpperSpecial or UpperRanges gives
\* it, and the character itself when neither lists it
UpperChar(char) ==
    LET special == {i \in DOMAIN UpperSpecial : UpperSpecial[i][1] = char}
        ranges == {i \in DOMAIN UpperRanges :
                      /\ UpperRanges[i][1] <= char
                      /\ char <= UpperRanges[i][2]
                      /\ (char - UpperRanges[i][1]) % UpperRanges[i][3] = 0}
    IN  IF special # {} THEN UpperSpecial[CHOOSE i \in special : TRUE][2]
        ELSE IF ranges # {}
        THEN <<char + UpperRanges[CHOOSE i \in ranges : TRUE][4]>>
        ELSE <<char>>

\* w_type.upper(): str.upper() applied, character by character, to
\* whatever type label the group holds
RECURSIVE Upper(_)
Upper(w_type) ==
    IF w_type = <<>> THEN <<>>
    ELSE UpperChar(Head(w_type)) \o Upper(Tail(w_type))

\* quant_config.get("quant_method", "")
QuantMethod(quant_config) ==
    IF "quant_method" \in DOMAIN quant_config THEN quant_config["quant_method"] ELSE ""

\* quant_config.get("config_groups", {}).values()
ConfigGroups(quant_config) ==
    IF "config_groups" \in DOMAIN quant_config THEN quant_config["config_groups"] ELSE <<>>

\* variant: the presence of the 'ignore' key marks the model as mixed
IgnoreNonEmpty_KeyPresent(quant_config) == "ignore" \in DOMAIN quant_config

\* bool(quant_config.get("ignore", []))
IgnoreNonEmpty(quant_config) ==
    "ignore" \in DOMAIN quant_config /\ Len(quant_config["ignore"]) > 0

\* num_bits and w_type of group.get("weights", {}): both present and truthy
\* (a null num_bits is None, which is falsy like 0; a null type is held as the empty label)
GroupParses(group) ==
    /\ "weights" \in DOMAIN group
    /\ "num_bits" \in DOMAIN group["weights"]
    /\ group["weights"]["num_bits"] # Null
    /\ group["weights"]["num_bits"] # 0
    /\ "type" \in DOMAIN group["weights"]
    /\ group["weights"]["type"] # <<>>

RECURSIVE FirstParsedGroup(_, _)
FirstParsedGroup(groups, i) ==
    IF i > Len(groups) THEN 0
    ELSE IF GroupParses(groups[i]) THEN i
    ELSE FirstParsedGroup(groups, i + 1)

\* variant: a recognized declared dtype is classified before the
\* quantization block is looked at
DetectResolved_DtypeFirst(config) ==
    IF DeclaredDtype(config) \in DOMAIN dtype_map
    THEN dtype_map[DeclaredDtype(config)]
    ELSE IF "quantization_config" \notin DOMAIN config
    THEN Raised("ValueError", "unknown_torch_dtype", DeclaredDtype(config), "")
    ELSE LET quant_config == config["quantization_config"]
             method == QuantMethod(quant_config)
         IN  IF method = "fp8" THEN PrecisionInfo(8, Str("FP8"), FALSE)
             ELSE Raised("ValueError", "unknown_quant_method", method, "")

DetectResolved(config) ==
    IF "quantization_config" \notin DOMAIN config
    THEN IF DeclaredDtype(config) \notin DOMAIN dtype_map
         THEN Raised("ValueError", "unknown_torch_dtype", DeclaredDtype(config), "")
         ELSE dtype_map[DeclaredDtype(config)]
    ELSE LET quant_config == config["quantization_config"]
             method == QuantMethod(quant_config)
             groups == ConfigGroups(quant_config)
             g == FirstParsedGroup(groups, 1)
         IN  IF method = "fp8" THEN PrecisionInfo(8, Str("FP8"), FALSE)
             ELSE IF method = "compressed-tensors"
             THEN IF g = 0
                  THEN Raised("ValueError", "unparseable_config_groups", "", "")
                  ELSE PrecisionInfo(
                         groups[g]["weights"]["num_bits"],
                         Upper(groups[g]["weights"]["type"])
                            \o Str(ToString(groups[g]["weights"]["num_bits"])),
                         IgnoreNonEmpty(quant_config))
             ELSE Raised("ValueError", "unknown_quant_method", method, "")

\* variant: the precision is read from the raw configuration
detect_precision_Unnormalized(raw_config) == DetectResolved(raw_config)

detect_precision(raw_config) ==
    LET resolved == resolve_text_config(raw_config)
    IN  IF ~resolved.ok THEN resolved
        ELSE DetectResolved(resolved.config)

\* ------------------------------------------------------------------------
\* pipeline/sources/huggingface.py: fetch_model
\*
\* The two HTTP fetches are inputs: config is the parsed config.json (the
\* empty mapping when fetch_hf_config returned None or {}), and
\* published_param_count_b is the safetensors count or Null (None).
\* Parameter counts in billions, rounded to one decimal, are held in tenths
\* of a billion.  An Optional field of ModelSpec that is None holds Null.
\* ------------------------------------------------------------------------

\* n / 1e9 is a float division: its result is the double nearest to the
\* exact quotient.  When n is an odd multiple m of 50,000,000 the quotient
\* m / 20 lies halfway between two tenths, and the double is m / 5 scaled
\* by a power of two.  BinaryExponent(8 * m, 0) is the d with
\* 5 * 2^d <= 8 * m < 10 * 2^d
RECURSIVE BinaryExponent(_, _)
BinaryExponent(scaled, d) ==
    IF scaled < 10 * 2^d THEN d ELSE BinaryExponent(scaled, d + 1)

\* the remainder, modulo 5, left when the 53-bit mantissa of m / 5 is cut:
\* 1 or 2 when the double lies below m / 5, 3 or 4 when it lies above
\* (2^52 = 1 and 2^-1 = 3 modulo 5)
MantissaRemainder(m) == (m * 3^(BinaryExponent(8 * m, 0) + 1)) % 5

\* round(n / 1e9, 1) for n >= 0, in tenths of a billion.  round() rounds
\* the double it is given correctly, to the even tenth when the double is
\* exactly halfway (m / 20 is a double only when 5 divides m); away from the
\* halfway points the double's error is too small to change the tenth
RoundMagnitude(n) ==
    LET lo == n \div 100000000
        m == 2 * lo + 1
    IN  IF n % 100000000 < 50000000 THEN lo
        ELSE IF n % 100000000 > 50000000 THEN lo + 1
        ELSE IF m % 5 = 0 THEN (IF lo % 2 = 0 THEN lo ELSE lo + 1)
        ELSE IF MantissaRemainder(m) >= 3 THEN lo + 1
        ELSE lo

\* round(n / 1e9, 1), in tenths of a billion: float division and round()
\* are both symmetric about zero, so a negative count rounds as its
\* magnitude does
RoundB(n) == IF n < 0 THEN -RoundMagnitude(-n) ELSE RoundMagnitude(n)

\* enrichment.ModelSpec: the fields fetch_model passes to the constructor
ModelSpec(model_name, published_param_count_b, learnable_params_b, active_params_b, architecture, context_length, precision, routed_expert_params_b, attention_type, num_hidden_layers, num_kv_heads, head_dim, kv_lora_rank, qk_rope_head_dim, hf_model_id) ==
    [ok |-> TRUE, model_name |-> model_name,
     published_param_count_b |-> published_param_count_b,
     learnable_params_b |-> learnable_params_b,
     active_params_b |-> active_params_b, architecture |-> architecture,
     context_length |-> context_length, precision |-> precision,
     routed_expert_params_b |-> routed_expert_params_b,
     attention_type |-> attention_type,
     num_hidden_layers |-> num_hidden_layers, num_kv_heads |-> num_kv_heads,
     head_dim |-> head_dim, kv_lora_rank |-> kv_lora_rank,
     qk_rope_head_dim |-> qk_rope_head_dim, hf_model_id |-> hf_model_id]

\* a precision label that is None
NoPrecision == Str("None")

\* effective_config.get(key): the value, or Null for an absent key
Get(config, key) == IF key \in DOMAIN config THEN config[key] ELSE Null

KvFields(num_kv_heads, head_dim, kv_lora_rank, qk_rope_head_dim) ==
    [ok |-> TRUE, num_kv_heads |-> num_kv_heads, head_dim |-> head_dim,
     kv_lora_rank |-> kv_lora_rank, qk_rope_head_dim |-> qk_rope_head_dim]

\* variant: the head dimension is always derived from hidden_size
ExtractGqaFields_AlwaysDerived(effective_config, hf_id) ==
    IF IsMissing(effective_config, "num_key_value_heads")
    THEN Raised("ValueError", "missing_gqa_field", "num_key_value_heads", hf_id)
    ELSE IF \/ IsMissing(effective_config, "hidden_size")
            \/ IsMissing(effective_config, "num_attention_heads")
            \/ effective_config["num_attention_heads"] = 0
    THEN Raised("ValueError", "cannot_compute_head_dim", "", hf_id)
    ELSE KvFields(effective_config["num_key_value_heads"],
                  effective_config["hidden_size"]
                     \div effective_config["num_attention_heads"],
                  Null, Null)

\* step 8, attn_type == AttentionType.GQA
ExtractGqaFields(effective_config, hf_id) ==
    IF IsMissing(effective_config, "num_key_value_heads")
    THEN Raised("ValueError", "missing_gqa_field", "num_key_value_heads", hf_id)
    ELSE IF ~IsMissing(effective_config, "head_dim")
    THEN KvFields(effective_config["num_key_value_heads"],
                  effective_config["head_dim"], Null, Null)
    ELSE IF \/ IsMissing(effective_config, "hidden_size")
            \/ IsMissing(effective_config, "num_attention_heads")
            \/ effective_config["num_attention_heads"] = 0
    THEN Raised("ValueError", "cannot_compute_head_dim", "", hf_id)
    ELSE KvFields(effective_config["num_key_value_heads"],
                  effective_config["hidden_size"]
                     \div effective_config["num_attention_heads"],
                  Null, Null)

\* variant: the two MLA fields are read from each other's key
ExtractMlaFields_Swapped(effective_config, hf_id) ==
    IF IsMissing(effective_config, "kv_lora_rank")
    THEN Raised("ValueError", "missing_mla_field", "kv_lora_rank", hf_id)
    ELSE IF IsMissing(effective_config, "qk_rope_head_dim")
    THEN Raised("ValueError", "missing_mla_field", "qk_rope_head_dim", hf_id)
    ELSE KvFields(Null, Null, effective_config["qk_rope_head_dim"],
                  effective_config["kv_lora_rank"])

\* step 8, attn_type == AttentionType.MLA
ExtractMlaFields(effective_config, hf_id) ==
    IF IsMissing(effective_config, "kv_lora_rank")
    THEN Raised("ValueError", "missing_mla_field", "kv_lora_rank", hf_id)
    ELSE IF IsMissing(effective_config, "qk_rope_head_dim")
    THEN Raised("ValueError", "missing_mla_field", "qk_rope_head_dim", hf_id)
    ELSE KvFields(Null, Null, effective_config["kv_lora_rank"],
                  effective_config["qk_rope_head_dim"])

\* attn_type.value.upper()
AttentionTypeStr(attn_type) == IF attn_type = "mla" THEN "MLA" ELSE "GQA"

\* step 8: the KV cache architecture fields of the effective configuration
ExtractKvFields(effective_config, hf_id) ==
    IF ModelTypeOf(effective_config) \notin DOMAIN KNOWN_ARCHITECTURES
    THEN Raised("ValueError", "unknown_model_type_kv",
                ModelTypeOf(effective_config), hf_id)
    ELSE IF IsMissing(effective_config, "num_hidden_layers")
    THEN Raised("ValueError", "missing_config_field", "num_hidden_layers", hf_id)
    ELSE IF KNOWN_ARCHITECTURES[ModelTypeOf(effective_config)].attn = "gqa"
    THEN ExtractGqaFields(effective_config, hf_id)
    ELSE ExtractMlaFields(effective_config, hf_id)

\* step 9: the label of detect_precision, None when it raises ValueError
PrecisionStr(config) ==
    IF detect_precision(config).ok THEN detect_precision(config).dtype_str
    ELSE NoPrecision

\* steps 4 to 9 and the constructor call, once step 3 has either produced
\* config_result or left it None with a published count to fall back on
BuildModelSpec(model_name, hf_id, config, published_param_count_b, config_result) ==
    LET counted == config_result.ok
        effective == resolve_text_config(config)
        kv == ExtractKvFields(effective.config, hf_id)
    IN  IF ~effective.ok THEN effective
        ELSE IF ~kv.ok THEN kv
        ELSE ModelSpec(
               model_name,
               published_param_count_b,
               IF counted THEN RoundB(config_result.total_params)
               ELSE published_param_count_b,
               IF counted THEN RoundB(config_result.active_params) ELSE Null,
               IF counted /\ config_result.num_moe_layers > 0
               THEN "MoE" ELSE "Dense",
               Get(effective.config, "max_position_embeddings"),
               PrecisionStr(config),
               IF counted /\ config_result.routed_expert_params > 0
               THEN RoundB(config_result.routed_expert_params) ELSE Null,
               AttentionTypeStr(KNOWN_ARCHITECTURES[ModelTypeOf(effective.config)].attn),
               effective.config["num_hidden_layers"],
               kv.num_kv_heads, kv.head_dim, kv.kv_lora_rank,
               kv.qk_rope_head_dim,
               hf_id)

\* TestKvCacheValues._kv_bytes_per_token: the KV cache bytes per token that
\* the consumers of a ModelSpec compute from its fields; arithmetic on a
\* field that is None raises TypeError
KvBytesPerToken(spec) ==
    IF spec.attention_type = "MLA"
    THEN IF Null \in {spec.num_hidden_layers, spec.kv_lora_rank, spec.qk_rope_head_dim}
         THEN Raised("TypeError", "none_operand", "", "")
         ELSE spec.num_hidden_layers * (spec.kv_lora_rank + spec.qk_rope_head_dim) * 2
    ELSE IF spec.attention_type = "GQA"
    THEN IF Null \in {spec.num_hidden_layers, spec.num_kv_heads, spec.head_dim}
         THEN Raised("TypeError", "none_operand", "", "")
         ELSE 2 * spec.num_hidden_layers * spec.num_kv_heads * spec.head_dim * 2
    ELSE Raised("ValueError", "unknown_attention_type", spec.attention_type, "")

\* variant: a failed config-based count never stops the enrichment
fetch_model_CountNeverFatal(model_name, hf_id, config, published_param_count_b) ==
    IF DOMAIN config = {}
    THEN Raised("RuntimeError", "no_config", hf_id, "")
    ELSE BuildModelSpec(model_name, hf_id, config, published_param_count_b,
                        count_params_from_config(config))

fetch_model(model_name, hf_id, config, published_param_count_b) ==
    LET config_result == count_params_from_config(config)
    IN  IF DOMAIN config = {}
        THEN Raised("RuntimeError", "no_config", hf_id, "")
        ELSE IF ~config_result.ok /\ config_result.exc # "ValueError"
        THEN config_result
        ELSE IF ~config_result.ok /\ published_param_count_b = Null
        THEN config_result
        ELSE BuildModelSpec(model_name, hf_id, config, published_param_count_b,
                            config_result)

\* ------------------------------------------------------------------------
\* Input space: configurations handed to the two entry points
\* ------------------------------------------------------------------------

CoreKeys ==
    {"hidden_size", "vocab_size", "num_hidden_layers", "intermediate_size",
     "num_experts_per_tok", "num_attention_heads", "num_key_value_heads",
     "max_position_embeddings"}

MlaKeys ==
    {"kv_lora_rank", "q_lora_rank", "qk_nope_head_dim", "qk_rope_head_dim",
     "v_head_dim"}

GqaKeys == {"head_dim"}

ExpertKeys ==
    {"n_routed_experts", "n_shared_experts", "moe_intermediate_size",
     "first_k_dense_replace", "num_nextn_predict_layers", "num_experts",
     "shared_expert_intermediate_size", "num_local_experts",
     "shared_intermediate_size", "num_mtp_modules",
     "moe_shared_expert_intermediate_size"}

DsaKeys == {"index_n_heads", "index_head_dim"}

LinearKeys ==
    {"linear_num_key_heads", "linear_key_head_dim", "linear_num_value_heads",
     "linear_value_head_dim", "linear_conv_kernel_dim"}

MambaKeys ==
    {"mamba_num_heads", "mamba_head_dim", "ssm_state_size", "n_group",
     "conv_kernel"}

IntKeys ==
    CoreKeys \cup MlaKeys \cup GqaKeys \cup ExpertKeys \cup DsaKeys
    \cup LinearKeys \cup MambaKeys \cup {"full_attention_interval"}

\* scaled-down values of the published configurations: many small routed
\* experts, few active per token, fewer KV heads than query heads
BaseVal(key) ==
    IF key \in {"n_routed_experts", "num_experts", "num_local_experts"} THEN 4
    ELSE IF key \in {"moe_intermediate_size", "max_position_embeddings"} THEN 4
    ELSE IF key \in {"hidden_size", "vocab_size", "num_hidden_layers",
                     "intermediate_size", "num_attention_heads",
                     "kv_lora_rank", "q_lora_rank", "num_experts_per_tok",
                     "full_attention_interval", "num_mtp_modules"} THEN 2
    ELSE IF key \in {"shared_expert_intermediate_size",
                     "shared_intermediate_size"} THEN 0
    ELSE 1

MappingKeys(mapping) ==
    {mapping.expert_count_key, mapping.shared_expert_key,
     mapping.expert_intermediate_key, mapping.dense_layers_key,
     mapping.mtp_key} \ {NoKey}

\* "X" stands for any character other than the four the composer names
PatternChars == {"M", "*", "-", "E", "X"}

BasePattern == <<"*", "E">>

TopologyKeys(topology) ==
    IF topology = "pattern" THEN MambaKeys \cup {"hybrid_override_pattern"}
    ELSE IF topology = "interval" THEN LinearKeys \cup {"full_attention_interval"}
    ELSE {}

BaseKeys(model_type, topology) ==
    LET arch == KNOWN_ARCHITECTURES[model_type]
    IN  {"model_type", "tie_word_embeddings", "torch_dtype"}
        \cup CoreKeys
        \cup (IF arch.attn = "mla" THEN MlaKeys ELSE GqaKeys)
        \cup MappingKeys(arch.mapping)
        \cup (IF model_type = "glm_moe_dsa" THEN DsaKeys ELSE {})
        \cup TopologyKeys(topology)

BaseConfig(model_type, topology) ==
    [k \in BaseKeys(model_type, topology) |->
        IF k = "model_type" THEN model_type
        ELSE IF k = "tie_word_embeddings" THEN FALSE
        ELSE IF k = "torch_dtype" THEN "bfloat16"
        ELSE IF k = "hybrid_override_pattern" THEN BasePattern
        ELSE BaseVal(k)]

Topologies == {"uniform", "pattern", "interval"}

\* a multimodal wrapper around a text backbone
Wrapper(text_config) ==
    [k \in {"model_type", "text_config"} |->
        IF k = "model_type" THEN "kimi_k25" ELSE text_config]

DictValue(config) == [type |-> "dict", value |-> config]

NonDictValues == {[type |-> "str"], [type |-> "NoneType"], [type |-> "list"]}

\* DEEPSEEK_V32_CONFIG and GLM_47_CONFIG of the tests, with the fields that
\* decide the KV cache geometry at their published values and the other
\* dimensions scaled down as in BaseVal, so that every count stays within
\* the 32-bit integers of the model checker
KvGeometry(model_type) ==
    IF model_type = "deepseek_v32"
    THEN [num_hidden_layers |-> 61, kv_lora_rank |-> 512,
          qk_rope_head_dim |-> 64, first_k_dense_replace |-> 3,
          num_nextn_predict_layers |-> 1]
    ELSE [num_hidden_layers |-> 92, num_attention_heads |-> 96,
          num_key_value_heads |-> 8, head_dim |-> 128,
          first_k_dense_replace |-> 3, num_nextn_predict_layers |-> 1]

KvConfig(model_type) ==
    [k \in BaseKeys(model_type, "uniform") |->
        IF k \in DOMAIN KvGeometry(model_type) THEN KvGeometry(model_type)[k]
        ELSE BaseConfig(model_type, "uniform")[k]]

\* a configuration that declares its dtype under the 'dtype' alias
DtypeAliasConfig ==
    [k \in (BaseKeys("qwen3_moe", "uniform") \ {"torch_dtype"}) \cup {"dtype"} |->
        IF k = "dtype" THEN "float16"
        ELSE BaseConfig("qwen3_moe", "uniform")[k]]

BaseConfigs ==
    {BaseConfig(mt, t) : mt \in DOMAIN KNOWN_ARCHITECTURES, t \in Topologies}
    \cup {KvConfig("deepseek_v32"), KvConfig("glm4_moe"), DtypeAliasConfig}
    \cup {Wrapper(DictValue(BaseConfig("kimi_k2", "uniform")))}
    \cup {Wrapper(v) : v \in NonDictValues}
    \cup {[k \in {"model_type"} |-> "kimi_k25"]}
    \cup {[k \in {"model_type", "hidden_size"} |->
             IF k = "model_type" THEN "llama" ELSE 2]}
    \cup {[k \in {"hidden_size"} |-> 2]}

\* ------------------------------------------------------------------------
\* State
\* ------------------------------------------------------------------------

VARIABLES
    raw_config,        \* the configuration a caller is about to pass
    edited,            \* the caller changed one key of a base configuration
    count_result,      \* what count_params_from_config(raw_config) produced
    precision_result,  \* what detect_precision(raw_config) produced
    published_param_count_b,  \* what fetch_hf_param_count returned to fetch_model
    fetch_result,      \* what fetch_model produced for raw_config
    model_map,         \* fetch_all_models: the hub repositories to enrich, in order
    loop_i,            \* fetch_all_models: models processed so far
    results,           \* fetch_all_models: specs of the enriched models
    failed,            \* fetch_all_models: names of the models that raised
    batch_pc,          \* fetch_all_models: "idle", "loop" or "done"
    batch_result,      \* what fetch_all_models produced
    pipeline_result,   \* what run_model_pipeline produced
    attempt,           \* main: the attempt of the retry loop, 0 before main
    main_result        \* how main ended

core_vars ==
    <<raw_config, edited, count_result, precision_result,
      published_param_count_b, fetch_result>>

batch_vars ==
    <<model_map, loop_i, results, failed, batch_pc, batch_result,
      pipeline_result, attempt, main_result>>

vars == <<core_vars, batch_vars>>

\* the entry point has not been called on raw_config
NotCalled == Raised("", "not_called", "", "")

Called(result) == result # NotCalled

\* dict operations of the caller that builds the configuration
SetKey(config, key, value) ==
    [k \in DOMAIN config \cup {key} |-> IF k = key THEN value ELSE config[k]]

DelKey(config, key) == [k \in DOMAIN config \ {key} |-> config[k]]

IntValues == {Null} \cup 0..MaxVal

MaxPatternLen == 2

RECURSIVE SeqsUpTo(_, _)
SeqsUpTo(chars, n) ==
    IF n = 0 THEN {<<>>}
    ELSE SeqsUpTo(chars, n - 1)
         \cup {Append(p, c) : p \in {q \in SeqsUpTo(chars, n - 1) : Len(q) = n - 1},
                              c \in chars}

Patterns == SeqsUpTo(PatternChars, MaxPatternLen)

ModelTypes == DOMAIN KNOWN_ARCHITECTURES \cup {"llama", "kimi_k25"}

DtypeStrings == {"bfloat16", "float16", "float32", "float8"}

QuantGroup(num_bits, type) ==
    [k \in {"weights"} |->
        [j \in {"num_bits", "type"} |-> IF j = "num_bits" THEN num_bits ELSE type]]

QuantConfigs ==
    {[k \in {"quant_method"} |-> "fp8"],
     [k \in {"quant_method"} |-> "gptq"],
     [k \in {"quant_method", "config_groups", "ignore"} |->
        IF k = "quant_method" THEN "compressed-tensors"
        ELSE IF k = "config_groups" THEN <<QuantGroup(4, Str("int"))>>
        ELSE <<"lm_head">>],
     [k \in {"quant_method", "config_groups"} |->
        IF k = "quant_method" THEN "compressed-tensors"
        ELSE <<QuantGroup(0, Str("int")), QuantGroup(8, Str("float"))>>],
     [k \in {"quant_method", "config_groups"} |->
        IF k = "quant_method" THEN "compressed-tensors"
        ELSE <<QuantGroup(4, Str("nvFP"))>>],
     [k \in {"quant_method", "config_groups", "ignore"} |->
        IF k = "quant_method" THEN "compressed-tensors"
        ELSE IF k = "config_groups" THEN <<QuantGroup(4, <<181, 233>>)>>
        ELSE <<"lm_head">>],
     [k \in {"quant_method", "config_groups"} |->
        IF k = "quant_method" THEN "compressed-tensors"
        ELSE <<QuantGroup(8, <<102, 223, 66600>>)>>],
     [k \in {"quant_method", "config_groups"} |->
        IF k = "quant_method" THEN "compressed-tensors"
        ELSE <<QuantGroup(Null, Str("int")), QuantGroup(8, Str("e4m3"))>>],
     [k \in {"quant_method", "config_groups"} |->
        IF k = "quant_method" THEN "compressed-tensors" ELSE <<>>],
     [k \in {"quant_method", "config_groups", "ignore"} |->
        IF k = "quant_method" THEN "compressed-tensors"
        ELSE IF k = "config_groups"
        THEN <<[j \in {"weights"} |-> [t \in {"type"} |-> Str("int")]],
               [j \in {"targets"} |-> "Linear"],
               QuantGroup(8, Str("float"))>>
        ELSE <<>>],
     [k \in {"bits"} |-> 4]}

\* the configurations one single-key change away from config
Edited(config) ==
    {SetKey(config, k, v) : k \in IntKeys, v \in IntValues}
    \cup {DelKey(config, k) : k \in DOMAIN config}
    \cup {SetKey(config, "tie_word_embeddings", b) : b \in BOOLEAN}
    \cup {SetKey(config, "hybrid_override_pattern", p) : p \in Patterns}
    \cup {SetKey(config, "model_type", mt) : mt \in ModelTypes}
    \cup {SetKey(config, k, d) : k \in {"torch_dtype", "dtype"}, d \in DtypeStrings}
    \cup {SetKey(config, "quantization_config", q) : q \in QuantConfigs}

\* the display name and repository id fetch_model is called with
ModelName == "Model"

HfId == "org/model"

\* fetch_hf_param_count: None, or a published count (1.0 billion)
PublishedCounts == {Null, 10}

\* fetch_all_models has not been called
BatchIdle ==
    /\ model_map = <<>>
    /\ loop_i = 0
    /\ results = <<>>
    /\ failed = <<>>
    /\ batch_pc = "idle"
    /\ batch_result = NotCalled
    /\ pipeline_result = NotCalled
    /\ attempt = 0
    /\ main_result = NotCalled

HasTextConfigDict(config) ==
    "text_config" \in DOMAIN config /\ config["text_config"].type = "dict"

Init ==
    /\ raw_config \in BaseConfigs
    /\ edited = FALSE
    /\ count_result = NotCalled
    /\ precision_result = NotCalled
    /\ published_param_count_b = Null
    /\ fetch_result = NotCalled
    /\ BatchIdle

\* the caller changes one top-level key before calling
EditConfig ==
    /\ ~edited
    /\ ~Called(count_result) /\ ~Called(precision_result)
    /\ ~Called(fetch_result)
    /\ raw_config' \in Edited(raw_config) \ {raw_config}
    /\ edited' = TRUE
    /\ UNCHANGED <<count_result, precision_result, published_param_count_b,
                   fetch_result, batch_vars>>

\* the caller changes one key of the nested text backbone
EditTextConfig ==
    /\ ~edited
    /\ ~Called(count_result) /\ ~Called(precision_result)
    /\ ~Called(fetch_result)
    /\ HasTextConfigDict(raw_config)
    /\ \E inner \in Edited(raw_config["text_config"].value)
                    \ {raw_config["text_config"].value} :
          raw_config' = SetKey(raw_config, "text_config", DictValue(inner))
    /\ edited' = TRUE
    /\ UNCHANGED <<count_result, precision_result, published_param_count_b,
                   fetch_result, batch_vars>>

\* the caller replaces or adds the value under 'text_config'
SetTextConfig ==
    /\ ~edited
    /\ ~Called(count_result) /\ ~Called(precision_result)
    /\ ~Called(fetch_result)
    /\ \E v \in NonDictValues \cup {DictValue(BaseConfig("kimi_k2", "uniform"))} :
          /\ raw_config' = SetKey(raw_config, "text_config", v)
          /\ raw_config' # raw_config
    /\ edited' = TRUE
    /\ UNCHANGED <<count_result, precision_result, published_param_count_b,
                   fetch_result, batch_vars>>

CountParams ==
    /\ ~Called(count_result)
    /\ count_result' = count_params_from_config(raw_config)
    /\ UNCHANGED <<raw_config, edited, precision_result,
                   published_param_count_b, fetch_result, batch_vars>>

DetectPrecision ==
    /\ ~Called(precision_result)
    /\ precision_result' = detect_precision(raw_config)
    /\ UNCHANGED <<raw_config, edited, count_result,
                   published_param_count_b, fetch_result, batch_vars>>

\* fetch_model is called for the repository whose config.json is raw_config
FetchModel ==
    /\ ~Called(fetch_result)
    /\ published_param_count_b' \in PublishedCounts
    /\ fetch_result' = fetch_model(ModelName, HfId, raw_config,
                                   published_param_count_b')
    /\ UNCHANGED <<raw_config, edited, count_result, precision_result,
                   batch_vars>>

Next ==
    \/ EditConfig
    \/ EditTextConfig
    \/ SetTextConfig
    \/ CountParams
    \/ DetectPrecision
    \/ FetchModel

Spec == Init /\ [][Next]_vars

\* ------------------------------------------------------------------------
\* pipeline/sources/huggingface.py: fetch_all_models, its caller
\* run_model_pipeline of pipeline/main.py, and the retry loop of main run
\* with --step models
\*
\* model_map (name -> hf_id) is held as the sequence of its hf_ids in dict
\* order; the name of the i-th entry is ModelNameAt(i).  What the hub serves
\* for a repository is fixed by Hub.
\* ------------------------------------------------------------------------

\* number of entries of model_map
MaxModels == 3

HubIds ==
    {"org/mla", "org/gqa", "org/llama", "org/incomplete", "org/null-field",
     "org/absent"}

\* the config.json and the safetensors count the hub serves for hf_id
Hub(hf_id) ==
    IF hf_id = "org/mla"
    THEN [config |-> BaseConfig("kimi_k2", "uniform"), published |-> Null]
    ELSE IF hf_id = "org/gqa"
    THEN [config |-> BaseConfig("glm4_moe", "uniform"), published |-> 10]
    ELSE IF hf_id = "org/llama"
    THEN [config |-> [k \in {"model_type", "hidden_size"} |->
                         IF k = "model_type" THEN "llama" ELSE 2],
          published |-> Null]
    ELSE IF hf_id = "org/incomplete"
    THEN [config |-> DelKey(BaseConfig("qwen3_moe", "uniform"), "vocab_size"),
          published |-> Null]
    ELSE IF hf_id = "org/null-field"
    THEN [config |-> SetKey(BaseConfig("glm4_moe", "uniform"), "head_dim", Null),
          published |-> 10]
    ELSE [config |-> <<>>, published |-> Null]

ModelNameAt(i) == "model-" \o ToString(i)

ModelMaps == SeqsUpTo(HubIds, MaxModels) \ {<<>>}

\* ', '.join(failed)
RECURSIVE JoinNames(_)
JoinNames(names) ==
    IF names = <<>> THEN ""
    ELSE IF Len(names) = 1 THEN names[1]
    ELSE names[1] \o ", " \o JoinNames(Tail(names))

\* the entry points of the core are not exercised
CoreIdle ==
    /\ raw_config = <<>>
    /\ edited = FALSE
    /\ count_result = NotCalled
    /\ precision_result = NotCalled
    /\ published_param_count_b = Null
    /\ fetch_result = NotCalled

\* main is in its first attempt: run_model_pipeline has called
\* fetch_all_models, which has been entered on the model map
BatchInit ==
    /\ CoreIdle
    /\ model_map \in ModelMaps
    /\ loop_i = 0
    /\ results = <<>>
    /\ failed = <<>>
    /\ batch_pc = "loop"
    /\ batch_result = NotCalled
    /\ pipeline_result = NotCalled
    /\ attempt = 1
    /\ main_result = NotCalled

\* one iteration of the loop: fetch_model inside try / except Exception
FetchNext ==
    /\ batch_pc = "loop"
    /\ loop_i < Len(model_map)
    /\ LET i == loop_i + 1
           hf_id == model_map[i]
           spec == fetch_model(ModelNameAt(i), hf_id, Hub(hf_id).config,
                               Hub(hf_id).published)
       IN  /\ loop_i' = i
           /\ IF spec.ok
              THEN /\ results' = Append(results, spec)
                   /\ UNCHANGED failed
              ELSE /\ failed' = Append(failed, ModelNameAt(i))
                   /\ UNCHANGED results
    /\ UNCHANGED <<core_vars, model_map, batch_pc, batch_result, pipeline_result,
                   attempt, main_result>>

\* after the loop: raise if any model failed, else return results
FetchAllModelsOutcome(total, specs, failed_names) ==
    IF failed_names # <<>>
    THEN RaisedWith("RuntimeError", "failed_to_enrich", JoinNames(failed_names),
                    "", <<Len(failed_names), total>>)
    ELSE [ok |-> TRUE, specs |-> specs]

FinishBatch ==
    /\ batch_pc = "loop"
    /\ loop_i = Len(model_map)
    /\ batch_result' = FetchAllModelsOutcome(Len(model_map), results, failed)
    /\ batch_pc' = "done"
    /\ UNCHANGED <<core_vars, model_map, loop_i, results, failed, pipeline_result,
                   attempt, main_result>>

\* run_model_pipeline: specs, skipped = fetch_all_models(); for spec in
\* specs: spec.model_name.  fetch_all_models returns one list, so the
\* unpacking needs it to hold exactly two items: a shorter list raises
\* "not enough values to unpack (expected 2, got n)", a longer one "too
\* many values to unpack (expected 2)", which does not say how many there
\* were.  With two items, iterating the first (a ModelSpec) yields
\* (field, value) tuples.
run_model_pipeline(fetched) ==
    IF ~fetched.ok THEN fetched
    ELSE IF Len(fetched.specs) < 2
    THEN RaisedWith("ValueError", "unpack", "", "", <<2, Len(fetched.specs)>>)
    ELSE IF Len(fetched.specs) > 2
    THEN RaisedWith("ValueError", "unpack_too_many", "", "", <<2>>)
    ELSE Raised("AttributeError", "no_attribute", "model_name", "tuple")

RunModelPipeline ==
    /\ batch_pc = "done"
    /\ ~Called(pipeline_result)
    /\ pipeline_result' = run_model_pipeline(batch_result)
    /\ UNCHANGED <<core_vars, model_map, loop_i, results, failed, batch_pc,
                   batch_result, attempt, main_result>>

\* main, run with --step models, after run_model_pipeline in one attempt of
\* the retry loop: when nothing was raised main returns; an exception is
\* caught by "except Exception", and the next attempt calls
\* run_model_pipeline, and so fetch_all_models, again from the first model
\* while attempts remain (MAX_RETRIES is 3); after the last attempt main
\* calls sys.exit(1)
MainAttemptEnds ==
    /\ Called(pipeline_result)
    /\ ~Called(main_result)
    /\ LET MAX_RETRIES == 3 IN
       IF pipeline_result.ok
       THEN /\ main_result' = [ok |-> TRUE]
            /\ UNCHANGED <<loop_i, results, failed, batch_pc, batch_result,
                           pipeline_result, attempt>>
       ELSE IF attempt < MAX_RETRIES
       THEN /\ attempt' = attempt + 1
            /\ loop_i' = 0
            /\ results' = <<>>
            /\ failed' = <<>>
            /\ batch_pc' = "loop"
            /\ batch_result' = NotCalled
            /\ pipeline_result' = NotCalled
            /\ UNCHANGED main_result
       ELSE /\ main_result' = RaisedWith("SystemExit", "exit", "", "", <<1>>)
            /\ UNCHANGED <<loop_i, results, failed, batch_pc, batch_result,
                           pipeline_result, attempt>>
    /\ UNCHANGED <<core_vars, model_map>>

BatchNext ==
    \/ FetchNext
    \/ FinishBatch
    \/ RunModelPipeline
    \/ MainAttemptEnds

BatchSpec == BatchInit /\ [][BatchNext]_vars

\* ------------------------------------------------------------------------
\* count_params_from_config at published scale
\*
\* Python integers are unbounded, and the counts of the published
\* configurations (hundreds of billions) are far beyond the integers of the
\* model checker.  Here the uniform composer is evaluated on numbers held
\* as little-endian sequences of base-1000 digits.  Every product of the
\* code is a product of configuration fields, each below 2^31 / 1000.
\* ------------------------------------------------------------------------

Base == 1000

\* a non-negative integer as its digits
RECURSIVE Big(_)
Big(n) == IF n < Base THEN <<n>> ELSE <<n % Base>> \o Big(n \div Base)

\* digits without the leading zeros (the most significant digit is last)
RECURSIVE Trim(_)
Trim(a) ==
    IF Len(a) > 1 /\ a[Len(a)] = 0 THEN Trim(SubSeq(a, 1, Len(a) - 1)) ELSE a

RECURSIVE AddCarry(_, _, _)
AddCarry(a, b, carry) ==
    IF a = <<>> /\ b = <<>>
    THEN IF carry = 0 THEN <<>> ELSE <<carry>>
    ELSE LET x == (IF a = <<>> THEN 0 ELSE Head(a))
                  + (IF b = <<>> THEN 0 ELSE Head(b)) + carry
         IN  <<x % Base>> \o AddCarry(IF a = <<>> THEN <<>> ELSE Tail(a),
                                      IF b = <<>> THEN <<>> ELSE Tail(b),
                                      x \div Base)

\* a + b
BigAdd(a, b) == Trim(AddCarry(a, b, 0))

RECURSIVE MulCarry(_, _, _)
MulCarry(a, n, carry) ==
    IF a = <<>>
    THEN IF carry = 0 THEN <<>> ELSE Big(carry)
    ELSE LET x == Head(a) * n + carry
         IN  <<x % Base>> \o MulCarry(Tail(a), n, x \div Base)

\* a * n, for a configuration-sized n
BigMul(a, n) == Trim(MulCarry(a, n, 0))

\* the product of a sequence of configuration-sized factors
RECURSIVE Prod(_)
Prod(factors) ==
    IF factors = <<>> THEN Big(1)
    ELSE BigMul(Prod(SubSeq(factors, 1, Len(factors) - 1)), factors[Len(factors)])

\* the sum of a sequence of numbers
RECURSIVE Sum(_)
Sum(terms) ==
    IF terms = <<>> THEN Big(0)
    ELSE BigAdd(Sum(SubSeq(terms, 1, Len(terms) - 1)), terms[Len(terms)])

\* a < b, for digits without leading zeros
RECURSIVE BigLess(_, _)
BigLess(a, b) ==
    IF Len(a) # Len(b) THEN Len(a) < Len(b)
    ELSE IF a = <<>> THEN FALSE
    ELSE IF a[Len(a)] # b[Len(b)] THEN a[Len(a)] < b[Len(b)]
    ELSE BigLess(SubSeq(a, 1, Len(a) - 1), SubSeq(b, 1, Len(b) - 1))

\* _mla_attention_params, on digits
_mla_attention_exact(config) ==
    LET hidden == _require(config, "hidden_size")
        n_heads == _require(config, "num_attention_heads")
        kv_lora_rank == _require(config, "kv_lora_rank")
        q_lora_rank == _require(config, "q_lora_rank")
        qk_nope == _require(config, "qk_nope_head_dim")
        qk_rope == _require(config, "qk_rope_head_dim")
        v_head == _require(config, "v_head_dim")
        q_a_proj == Prod(<<hidden, q_lora_rank>>)
        q_a_norm == Big(q_lora_rank)
        q_b_proj == Prod(<<q_lora_rank, n_heads, qk_nope + qk_rope>>)
        kv_a_proj == Prod(<<hidden, kv_lora_rank + qk_rope>>)
        kv_a_norm == Big(kv_lora_rank)
        kv_b_proj == Prod(<<kv_lora_rank, n_heads, qk_nope + v_head>>)
        o_proj == Prod(<<n_heads, v_head, hidden>>)
    IN  Sum(<<q_a_proj, q_a_norm, q_b_proj, kv_a_proj, kv_a_norm, kv_b_proj, o_proj>>)

\* _gqa_attention_params, on digits
_gqa_attention_exact(config) ==
    LET hidden == _require(config, "hidden_size")
        n_heads == _require(config, "num_attention_heads")
        n_kv_heads == _require(config, "num_key_value_heads")
        head_dim == HeadDim(config)
        q_proj == Prod(<<hidden, n_heads, head_dim>>)
        k_proj == Prod(<<hidden, n_kv_heads, head_dim>>)
        v_proj == Prod(<<hidden, n_kv_heads, head_dim>>)
        o_proj == Prod(<<n_heads, head_dim, hidden>>)
    IN  Sum(<<q_proj, k_proj, v_proj, o_proj>>)

\* _dsa_indexer_params, on digits
_dsa_indexer_exact(config) ==
    IF DsaAbsent(config) THEN Big(0)
    ELSE LET hidden == _require(config, "hidden_size")
             index_n_heads == config["index_n_heads"]
             index_head_dim == config["index_head_dim"]
             wq_b == Prod(<<hidden, index_n_heads, index_head_dim>>)
             wk == Prod(<<hidden, index_n_heads, index_head_dim>>)
             weights_proj == Prod(<<index_n_heads, index_head_dim, index_n_heads>>)
             k_norm == Prod(<<2, index_head_dim>>)
         IN  Sum(<<wq_b, wk, weights_proj, k_norm>>)

\* _dense_mlp_params, on digits
_dense_mlp_exact(hidden, intermediate, num_projections) ==
    Prod(<<num_projections, hidden, intermediate>>)

\* variant: every routed expert is counted, active or not
_moe_layer_exact_AllExperts(config, mapping, num_active_experts) ==
    LET hidden == _require(config, "hidden_size")
        n_experts == _require(config, mapping.expert_count_key)
        expert_intermediate == _require(config, mapping.expert_intermediate_key)
        n_proj == mapping.num_mlp_projections
        shared_val == _require(config, mapping.shared_expert_key)
    IN  Sum(<<Prod(<<n_experts, n_proj, hidden, expert_intermediate>>),
              Prod(<<hidden, n_experts>>),
              IF mapping.shared_expert_is_count
              THEN Prod(<<shared_val, n_proj, hidden, expert_intermediate>>)
              ELSE Prod(<<n_proj, hidden, shared_val>>)>>)

\* _moe_layer_params, on digits
_moe_layer_exact(config, mapping, num_active_experts) ==
    LET hidden == _require(config, "hidden_size")
        n_experts == _require(config, mapping.expert_count_key)
        expert_intermediate == _require(config, mapping.expert_intermediate_key)
        n_proj == mapping.num_mlp_projections
        active == IF num_active_experts # Null THEN num_active_experts ELSE n_experts
        routed == BigMul(_dense_mlp_exact(hidden, expert_intermediate, n_proj), active)
        router == Prod(<<hidden, n_experts>>)
        shared_val == _require(config, mapping.shared_expert_key)
        shared == IF mapping.shared_expert_is_count
                  THEN BigMul(_dense_mlp_exact(hidden, expert_intermediate, n_proj),
                              shared_val)
                  ELSE IF shared_val > 0
                       THEN _dense_mlp_exact(hidden, shared_val, n_proj)
                       ELSE Big(0)
    IN  Sum(<<routed, router, shared>>)

\* the uniform composer of count_params_from_config, on digits; the layer
\* counts of the result are plain integers
_count_uniform_exact(config, attn_type, mapping) ==
    LET hidden == _require(config, "hidden_size")
        vocab == _require(config, "vocab_size")
        n_layers == _require(config, "num_hidden_layers")
        intermediate == _require(config, "intermediate_size")
        n_active_experts == _require(config, "num_experts_per_tok")
        dense_layers == DenseLayers(config, mapping)
        moe_layers == n_layers - dense_layers
        mtp_count == MtpCount(config, mapping)
        attn_per_layer == IF attn_type = "mla" THEN _mla_attention_exact(config)
                          ELSE _gqa_attention_exact(config)
        norms_per_layer == Prod(<<2, hidden>>)
        embed == Prod(<<vocab, hidden>>)
        lm_head == IF Tied(config) THEN Big(0) ELSE Prod(<<vocab, hidden>>)
        final_norm == Big(hidden)
        n_experts == _require(config, mapping.expert_count_key)
        expert_intermediate == _require(config, mapping.expert_intermediate_key)
        routed_expert_params ==
            BigMul(BigMul(_dense_mlp_exact(hidden, expert_intermediate, DefaultProjections),
                          n_experts), moe_layers)
        dsa_per_layer == _dsa_indexer_exact(config)
        dense_block == Sum(<<attn_per_layer,
                             _dense_mlp_exact(hidden, intermediate, DefaultProjections),
                             norms_per_layer, dsa_per_layer>>)
        moe_block == Sum(<<attn_per_layer, _moe_layer_exact(config, mapping, Null),
                           norms_per_layer, dsa_per_layer>>)
        mtp_per_module == Sum(<<Prod(<<2, hidden, hidden>>), Prod(<<4, hidden>>)>>)
        mtp_total == IF mtp_count > 0 THEN BigMul(mtp_per_module, mtp_count) ELSE Big(0)
        total == Sum(<<embed, lm_head, BigMul(dense_block, dense_layers),
                       BigMul(moe_block, moe_layers), final_norm, mtp_total>>)
        active_moe_block == Sum(<<attn_per_layer,
                                  _moe_layer_exact(config, mapping, n_active_experts),
                                  norms_per_layer, dsa_per_layer>>)
        active == Sum(<<embed, lm_head, BigMul(dense_block, dense_layers),
                        BigMul(active_moe_block, moe_layers), final_norm, mtp_total>>)
    IN  ParamCountResult(total, active, routed_expert_params,
                         ModelTypeOf(config), n_layers, moe_layers,
                         dense_layers, 0, 0)

\* count_params_from_config for a configuration of the uniform topology
\* whose dense-layer count does not exceed its layer count
count_params_exact(published_config) ==
    LET resolved == resolve_text_config(published_config)
        config == resolved.config
        arch == KNOWN_ARCHITECTURES[ModelTypeOf(config)]
    IN  IF ~resolved.ok THEN resolved
        ELSE IF ModelTypeOf(config) \notin DOMAIN KNOWN_ARCHITECTURES
        THEN Raised("ValueError", "unknown_model_type", ModelTypeOf(config), "")
        ELSE IF ~FirstFailure(config, _count_uniform_steps(config, arch.attn, arch.mapping), 1).ok
        THEN FirstFailure(config, _count_uniform_steps(config, arch.attn, arch.mapping), 1)
        ELSE _count_uniform_exact(config, arch.attn, arch.mapping)

\* the configurations embedded in tests/test_param_counter.py
DEEPSEEK_V32_CONFIG ==
    [model_type |-> "deepseek_v32",
     hidden_size |-> 7168,
     intermediate_size |-> 18432,
     num_hidden_layers |-> 61,
     num_attention_heads |-> 128,
     num_key_value_heads |-> 128,
     vocab_size |-> 129280,
     kv_lora_rank |-> 512,
     q_lora_rank |-> 1536,
     qk_nope_head_dim |-> 128,
     qk_rope_head_dim |-> 64,
     v_head_dim |-> 128,
     n_routed_experts |-> 256,
     num_experts_per_tok |-> 8,
     n_shared_experts |-> 1,
     moe_intermediate_size |-> 2048,
     first_k_dense_replace |-> 3,
     num_nextn_predict_layers |-> 1,
     tie_word_embeddings |-> FALSE,
     quantization_config |-> [quant_method |-> "fp8",
          fmt |-> "e4m3"],
     torch_dtype |-> "bfloat16"]

GLM_47_CONFIG ==
    [model_type |-> "glm4_moe",
     hidden_size |-> 5120,
     intermediate_size |-> 12288,
     num_hidden_layers |-> 92,
     num_attention_heads |-> 96,
     num_key_value_heads |-> 8,
     head_dim |-> 128,
     vocab_size |-> 151552,
     n_routed_experts |-> 160,
     num_experts_per_tok |-> 8,
     n_shared_experts |-> 1,
     moe_intermediate_size |-> 1536,
     first_k_dense_replace |-> 3,
     num_nextn_predict_layers |-> 1,
     tie_word_embeddings |-> FALSE,
     torch_dtype |-> "bfloat16"]

KIMI_K2_THINKING_CONFIG ==
    [model_type |-> "kimi_k2",
     hidden_size |-> 7168,
     intermediate_size |-> 18432,
     num_hidden_layers |-> 61,
     num_attention_heads |-> 64,
     num_key_value_heads |-> 64,
     vocab_size |-> 163840,
     kv_lora_rank |-> 512,
     q_lora_rank |-> 1536,
     qk_nope_head_dim |-> 128,
     qk_rope_head_dim |-> 64,
     v_head_dim |-> 128,
     n_routed_experts |-> 384,
     num_experts_per_tok |-> 8,
     n_shared_experts |-> 1,
     moe_intermediate_size |-> 2048,
     first_k_dense_replace |-> 1,
     num_nextn_predict_layers |-> 0,
     tie_word_embeddings |-> FALSE,
     quantization_config |-> [quant_method |-> "compressed-tensors",
          config_groups |-> <<QuantGroup(4, Str("int"))>>,
          ignore |-> <<"lm_head", "re:.*self_attn.*", "re:.*shared_experts.*">>],
     torch_dtype |-> "bfloat16"]

MINIMAX_M25_CONFIG ==
    [model_type |-> "minimax_m2",
     hidden_size |-> 3072,
     intermediate_size |-> 1536,
     num_hidden_layers |-> 62,
     num_attention_heads |-> 48,
     num_key_value_heads |-> 8,
     head_dim |-> 128,
     vocab_size |-> 200064,
     num_local_experts |-> 256,
     num_experts_per_tok |-> 8,
     shared_intermediate_size |-> 0,
     num_mtp_modules |-> 3,
     tie_word_embeddings |-> FALSE,
     quantization_config |-> [quant_method |-> "fp8",
          fmt |-> "float8_e4m3fn"]]

QWEN3_CODER_CONFIG ==
    [model_type |-> "qwen3_moe",
     hidden_size |-> 6144,
     intermediate_size |-> 8192,
     num_hidden_layers |-> 62,
     num_attention_heads |-> 96,
     num_key_value_heads |-> 8,
     head_dim |-> 128,
     vocab_size |-> 151936,
     num_experts |-> 160,
     num_experts_per_tok |-> 8,
     moe_intermediate_size |-> 2560,
     shared_expert_intermediate_size |-> 0,
     tie_word_embeddings |-> FALSE,
     torch_dtype |-> "bfloat16"]

\* the text backbone of KIMI_K25_CONFIG
KIMI_K25_TEXT_CONFIG ==
    [model_type |-> "kimi_k2",
     hidden_size |-> 7168,
     intermediate_size |-> 18432,
     num_hidden_layers |-> 61,
     num_attention_heads |-> 64,
     num_key_value_heads |-> 64,
     vocab_size |-> 163840,
     kv_lora_rank |-> 512,
     q_lora_rank |-> 1536,
     qk_nope_head_dim |-> 128,
     qk_rope_head_dim |-> 64,
     v_head_dim |-> 128,
     n_routed_experts |-> 384,
     num_experts_per_tok |-> 8,
     n_shared_experts |-> 1,
     moe_intermediate_size |-> 2048,
     first_k_dense_replace |-> 1,
     num_nextn_predict_layers |-> 0,
     tie_word_embeddings |-> FALSE,
     max_position_embeddings |-> 262144,
     quantization_config |-> [quant_method |-> "compressed-tensors",
          config_groups |-> <<QuantGroup(4, Str("int"))>>,
          ignore |-> <<"lm_head", "re:.*self_attn.*", "re:.*shared_experts.*">>]]

KIMI_K25_CONFIG == Wrapper(DictValue(KIMI_K25_TEXT_CONFIG))

PublishedConfigs ==
    {DEEPSEEK_V32_CONFIG, GLM_47_CONFIG, KIMI_K25_CONFIG,
     KIMI_K2_THINKING_CONFIG, MINIMAX_M25_CONFIG, QWEN3_CODER_CONFIG}

\* the configurations counted at scale: the published ones, and the
\* scaled-down uniform configuration of every registered architecture
ScaleConfigs ==
    PublishedConfigs
    \cup {BaseConfig(mt, "uniform") : mt \in DOMAIN KNOWN_ARCHITECTURES}

\* a published configuration with one key removed or the embeddings tied
ScaleEdited(config) ==
    {DelKey(config, k) : k \in DOMAIN config}
    \cup {SetKey(config, "tie_word_embeddings", b) : b \in BOOLEAN}

ScaleInit ==
    /\ raw_config \in ScaleConfigs
    /\ edited = FALSE
    /\ count_result = NotCalled
    /\ precision_result = NotCalled
    /\ published_param_count_b = Null
    /\ fetch_result = NotCalled
    /\ BatchIdle

\* the caller removes one key, or sets tie_word_embeddings, before calling
EditPublished ==
    /\ ~edited
    /\ ~Called(count_result) /\ ~Called(precision_result)
    /\ raw_config' \in ScaleEdited(raw_config) \ {raw_config}
    /\ edited' = TRUE
    /\ UNCHANGED <<count_result, precision_result, published_param_count_b,
                   fetch_result, batch_vars>>

CountPublished ==
    /\ ~Called(count_result)
    /\ count_result' = count_params_exact(raw_config)
    /\ UNCHANGED <<raw_config, edited, precision_result,
                   published_param_count_b, fetch_result, batch_vars>>

ScaleNext ==
    \/ EditPublished
    \/ CountPublished
    \/ DetectPrecision

ScaleSpec == ScaleInit /\ [][ScaleNext]_vars

\* ------------------------------------------------------------------------
\* Properties of count_params_from_config
\* ------------------------------------------------------------------------

\* the configuration the composers operate on, once normalization succeeded
Resolved == resolve_text_config(raw_config).config

Counted == Called(count_result) /\ count_result.ok

\* raw_config resolves to a configuration of a registered architecture
Registered ==
    /\ resolve_text_config(raw_config).ok
    /\ ModelTypeOf(Resolved) \in DOMAIN KNOWN_ARCHITECTURES

MissingField(key) == Raised("ValueError", "required_field_missing", key, "")

\* C1: whenever count_params_from_config returns a result,
\* active_params <= total_params, for every value of num_experts_per_tok
\* (also values above the routed-expert count) and in every topology.
C1_ActiveAtMostTotal ==
    Counted => count_result.active_params <= count_result.total_params

\* C2: whenever count_params_from_config returns a result,
\* routed_expert_params <= total_params, for every registered architecture
\* (also those with num_mlp_projections = 2) and in every topology.
C2_RoutedAtMostTotal ==
    Counted => count_result.routed_expert_params <= count_result.total_params

\* C3: every count of a returned ParamCountResult is >= 0; in particular
\* num_moe_layers = num_hidden_layers - dense_layer_count is >= 0 for every
\* value of the dense-layer-count field.
C3_CountsNonNegative ==
    Counted =>
        /\ count_result.total_params >= 0
        /\ count_result.active_params >= 0
        /\ count_result.routed_expert_params >= 0
        /\ count_result.num_layers >= 0
        /\ count_result.num_moe_layers >= 0
        /\ count_result.num_dense_layers >= 0
        /\ count_result.num_mamba_layers >= 0
        /\ count_result.num_attention_layers >= 0

\* C4: when the resolved configuration's model_type is not registered (or
\* the key is missing), count_params_from_config raises the error naming
\* that identifier, whatever other keys are present or absent: never a
\* missing-field error.
C4_UnknownModelTypeFirst ==
    (/\ Called(count_result)
     /\ resolve_text_config(raw_config).ok
     /\ ModelTypeOf(Resolved) \notin DOMAIN KNOWN_ARCHITECTURES)
    => count_result = Raised("ValueError", "unknown_model_type",
                             ModelTypeOf(Resolved), "")

\* C4 witness: an unregistered model_type on a configuration that lacks
\* hidden_size, the first required field of every composer
C4_Witness ==
    /\ Called(count_result)
    /\ resolve_text_config(raw_config).ok
    /\ ModelTypeOf(Resolved) = "llama"
    /\ "hidden_size" \notin DOMAIN Resolved
    /\ count_result.kind = "unknown_model_type"

\* C5: removing any single key that the selected architecture/topology
\* reads as a required field from a configuration that counts successfully
\* makes count_params_from_config raise the error naming exactly that key.
C5_MissingFieldNamed ==
    Counted =>
        \A key \in RequiredKeys(ComposerSteps(Resolved)) :
            CountResolved(DelKey(Resolved, key)) = MissingField(key)

\* what a wrapper configuration holds instead of a text_config mapping
WrapperFound ==
    IF "text_config" \notin DOMAIN raw_config THEN "missing"
    ELSE IF raw_config["text_config"].type = "NoneType" THEN "missing"
    ELSE raw_config["text_config"].type

\* the configuration the two entry points must work on: the mapping under
\* 'text_config' for a wrapper, the input itself otherwise
Backbone ==
    IF ModelTypeOf(raw_config) \in MULTIMODAL_MODEL_TYPES
    THEN raw_config["text_config"].value
    ELSE raw_config

WrapperWithoutBackbone ==
    /\ ModelTypeOf(raw_config) \in MULTIMODAL_MODEL_TYPES
    /\ ~HasTextConfigDict(raw_config)

WrapperError ==
    Raised("ValueError", "requires_text_config", ModelTypeOf(raw_config),
           WrapperFound)

\* C6: for a multimodal-wrapper model_type both entry points work on the
\* mapping under 'text_config', and raise the error naming the wrapper
\* model_type and what was found ('missing' or the type) when it is absent
\* or not a mapping; for every other model_type they work on the input
\* configuration itself.
C6_NormalizedEverywhere ==
    /\ Called(count_result) =>
          count_result = IF WrapperWithoutBackbone THEN WrapperError
                         ELSE CountResolved(Backbone)
    /\ Called(precision_result) =>
          precision_result = IF WrapperWithoutBackbone THEN WrapperError
                             ELSE DetectResolved(Backbone)

\* C6 witness: a wrapper whose text backbone was counted and classified
C6_Witness ==
    /\ ModelTypeOf(raw_config) = "kimi_k25"
    /\ HasTextConfigDict(raw_config)
    /\ Counted
    /\ count_result.model_type = "kimi_k2"
    /\ Called(precision_result) /\ precision_result.ok

\* the results for this configuration with tie_word_embeddings set to b
WithTie(b) == CountResolved(SetKey(Resolved, "tie_word_embeddings", b))

WithoutTie == CountResolved(DelKey(Resolved, "tie_word_embeddings"))

EmbeddingCost ==
    _require(Resolved, "vocab_size") * _require(Resolved, "hidden_size")

\* C7: in every topology the output head adds 0 when tie_word_embeddings is
\* true and vocab_size x hidden_size when it is false or absent: two
\* configurations differing only in tie_word_embeddings differ in
\* total_params and in active_params by exactly vocab_size x hidden_size,
\* and in nothing else.
C7_TiedEmbeddings ==
    Counted =>
        /\ WithTie(TRUE).ok /\ WithTie(FALSE).ok /\ WithoutTie.ok
        /\ WithTie(FALSE).total_params = WithTie(TRUE).total_params + EmbeddingCost
        /\ WithTie(FALSE).active_params = WithTie(TRUE).active_params + EmbeddingCost
        /\ WithoutTie = WithTie(FALSE)
        /\ [WithTie(FALSE) EXCEPT !.total_params = 0, !.active_params = 0]
           = [WithTie(TRUE) EXCEPT !.total_params = 0, !.active_params = 0]
        /\ count_result \in {WithTie(TRUE), WithTie(FALSE)}

\* C7 witness: a counted configuration with tied embeddings and a non-zero
\* embedding cost, in a hybrid topology
C7_Witness ==
    /\ Counted
    /\ Tied(Resolved)
    /\ EmbeddingCost > 0
    /\ Topology(Resolved) = "pattern"

\* the pattern-hybrid composer runs on this configuration and reaches its
\* length check: the four fields it requires first are present
ReachesPatternCheck ==
    /\ Registered
    /\ "hybrid_override_pattern" \in DOMAIN Resolved
    /\ \A key \in {"hidden_size", "vocab_size", "num_hidden_layers",
                   "num_experts_per_tok"} : ~IsMissing(Resolved, key)

PatternMismatchError ==
    RaisedWith("ValueError", "pattern_length_mismatch", "", "",
               <<Len(Resolved["hybrid_override_pattern"]),
                 Resolved["num_hidden_layers"]>>)

\* C8: when the pattern-hybrid composer finds the length of
\* hybrid_override_pattern different from num_hidden_layers it raises the
\* error reporting both lengths and returns no result; when the lengths are
\* equal that error is not raised.
C8_PatternLengthMismatch ==
    (Called(count_result) /\ ReachesPatternCheck) =>
        IF Len(Resolved["hybrid_override_pattern"]) # Resolved["num_hidden_layers"]
        THEN count_result = PatternMismatchError
        ELSE count_result.ok \/ count_result.kind # "pattern_length_mismatch"

\* C8 witness: a pattern shorter than the declared layer count was counted
C8_Witness ==
    /\ Called(count_result) /\ ReachesPatternCheck
    /\ Len(Resolved["hybrid_override_pattern"]) < Resolved["num_hidden_layers"]
    /\ ~count_result.ok

\* C9: in the interval-hybrid topology with full_attention_interval = N > 1
\* and L layers, the layers at 1-indexed positions that are multiples of N
\* use full attention: num_attention_layers = floor(L / N),
\* num_mamba_layers = L - floor(L / N), num_moe_layers = L and
\* num_dense_layers = 0.
C9_IntervalLayerCounts ==
    (Counted /\ Topology(Resolved) = "interval") =>
        LET N == Resolved["full_attention_interval"]
            L == Resolved["num_hidden_layers"]
        IN  /\ N > 1
            /\ count_result.num_layers = L
            /\ count_result.num_attention_layers = L \div N
            /\ count_result.num_mamba_layers = L - (L \div N)
            /\ count_result.num_moe_layers = L
            /\ count_result.num_dense_layers = 0
            /\ \A pos \in 1..L :
                  IsFullAttentionLayer(pos - 1, N) <=> (pos % N = 0)

\* C9 witness: an interval-hybrid result whose layer count is not a multiple
\* of the interval
C9_Witness ==
    /\ Counted /\ Topology(Resolved) = "interval"
    /\ Resolved["num_hidden_layers"] % Resolved["full_attention_interval"] # 0
    /\ count_result.num_mamba_layers > 0

\* the keys count_params_from_config consults for a configuration of a
\* registered architecture: those of the registry entry's attention family
\* and field mapping and of the selected topology
AttentionKeys(attn_type) ==
    IF attn_type = "mla"
    THEN {"hidden_size", "num_attention_heads"} \cup MlaKeys
    ELSE {"hidden_size", "num_attention_heads", "num_key_value_heads"} \cup GqaKeys

MoeKeys(mapping) ==
    {"hidden_size", mapping.expert_count_key, mapping.expert_intermediate_key,
     mapping.shared_expert_key}

KindsIn(pattern) == {LayerKind(pattern[i]) : i \in 1..Len(pattern)}

UsedKeys(config) ==
    LET arch == KNOWN_ARCHITECTURES[ModelTypeOf(config)]
        common == {"model_type", "hybrid_override_pattern",
                   "tie_word_embeddings", "hidden_size", "vocab_size",
                   "num_hidden_layers", "num_experts_per_tok"}
        kinds == KindsIn(config["hybrid_override_pattern"])
    IN  IF Topology(config) = "pattern"
        THEN common
             \cup (IF "mamba" \in kinds THEN MambaKeys ELSE {})
             \cup (IF "attention" \in kinds THEN AttentionKeys(arch.attn) ELSE {})
             \cup (IF "dense" \in kinds THEN {"intermediate_size"} ELSE {})
             \cup (IF "moe" \in kinds THEN MoeKeys(arch.mapping) ELSE {})
        ELSE IF Topology(config) = "interval"
        THEN common \cup {"full_attention_interval"} \cup AttentionKeys("gqa")
             \cup LinearKeys \cup MoeKeys(arch.mapping)
        ELSE common \cup {"full_attention_interval", "intermediate_size"}
             \cup ({arch.mapping.dense_layers_key, arch.mapping.mtp_key} \ {NoKey})
             \cup AttentionKeys(arch.attn) \cup MoeKeys(arch.mapping) \cup DsaKeys

\* the keys on which two configurations differ (presence or value)
ChangedKeys(c1, c2) ==
    {k \in DOMAIN c1 \cup DOMAIN c2 :
        ~(k \in DOMAIN c1 /\ k \in DOMAIN c2 /\ c1[k] = c2[k])}

\* C10: a change (adding, removing or altering) of a field that the
\* selected architecture and topology do not use, such as an MLA field on
\* a GQA-registered model, leaves the outcome of count_params_from_config
\* unchanged: the same result, or the same error.
C10_IrrelevantFieldIndependence ==
    [][(/\ edited' # edited
        /\ Registered
        /\ resolve_text_config(raw_config').ok
        /\ ChangedKeys(Resolved, resolve_text_config(raw_config').config)
              \cap UsedKeys(Resolved) = {})
       => count_params_from_config(raw_config')
          = count_params_from_config(raw_config)]_vars

\* C10 witness: a counted GQA-registered model whose configuration carries
\* the MLA field v_head_dim
C10_Witness ==
    /\ Counted
    /\ KNOWN_ARCHITECTURES[ModelTypeOf(Resolved)].attn = "gqa"
    /\ "v_head_dim" \in DOMAIN Resolved
    /\ Resolved["v_head_dim"] = 2

\* ------------------------------------------------------------------------
\* Properties of the orchestration layer: fetch_all_models, fetch_model
\* ------------------------------------------------------------------------

\* C11: when the enrichment of a model fails in fetch_all_models, the model
\* is recorded as failed, every remaining model of the map is still
\* processed, and the failure is not fatal to the run: fetch_all_models
\* completes and yields the specs of the models that succeeded.
C11_SingleFailureNotFatal ==
    (batch_pc = "done" /\ failed # <<>>) =>
        /\ Len(results) + Len(failed) = Len(model_map)
        /\ batch_result.ok
        /\ batch_result.specs = results

Fetched == Called(fetch_result) /\ fetch_result.ok

\* fetch_hf_config returned a non-empty mapping
HasConfig == DOMAIN raw_config # {}

\* C12: fetch_model on a configuration whose normalized model_type is not
\* registered raises UnsupportedArchitecture, whose message carries
\* model_type='<id>', whatever other fields are present.
C12_UnknownTypeRaisesUnsupportedArchitecture ==
    (/\ Called(fetch_result)
     /\ HasConfig
     /\ resolve_text_config(raw_config).ok
     /\ ModelTypeOf(Resolved) \notin DOMAIN KNOWN_ARCHITECTURES) =>
        /\ ~fetch_result.ok
        /\ fetch_result.exc = "UnsupportedArchitecture"
        /\ fetch_result.name = ModelTypeOf(Resolved)

\* what the two core entry points and the KV extraction give for raw_config
CountOutcome == count_params_from_config(raw_config)

DetectOutcome == detect_precision(raw_config)

KvOutcome == ExtractKvFields(Resolved, HfId)

\* the fields detect_precision never consults: every integer field, the
\* tying flag and the layer pattern
CountingKeys == IntKeys \cup {"tie_word_embeddings", "hybrid_override_pattern"}

\* an edit that changes only parameter-counting fields of the effective
\* configuration, or its model_type between identifiers that are not
\* multimodal wrappers (registered or not)
CountingOnlyEdit ==
    /\ edited' # edited
    /\ resolve_text_config(raw_config).ok
    /\ resolve_text_config(raw_config').ok
    /\ ModelTypeOf(raw_config) \in MULTIMODAL_MODEL_TYPES
          <=> ModelTypeOf(raw_config') \in MULTIMODAL_MODEL_TYPES
    /\ ChangedKeys(Resolved, resolve_text_config(raw_config').config)
          \subseteq CountingKeys \cup {"model_type"}

PrecisionIgnoresCounting ==
    CountingOnlyEdit => detect_precision(raw_config') = detect_precision(raw_config)

\* a precision failure leaves the counts reported, with precision unset
CountsSurvivePrecisionFailure ==
    (/\ Called(fetch_result)
     /\ CountOutcome.ok
     /\ ~DetectOutcome.ok
     /\ KvOutcome.ok) =>
        /\ fetch_result.ok
        /\ fetch_result.precision = NoPrecision
        /\ fetch_result.learnable_params_b = RoundB(CountOutcome.total_params)
        /\ fetch_result.active_params_b = RoundB(CountOutcome.active_params)

\* a counting failure leaves the precision reported
PrecisionSurvivesCountFailure ==
    (/\ Called(fetch_result)
     /\ HasConfig
     /\ ~CountOutcome.ok
     /\ DetectOutcome.ok) =>
        /\ fetch_result.ok
        /\ fetch_result.precision = DetectOutcome.dtype_str

\* a counting failure is survived only through the published count
CountFailureNeedsPublishedCount ==
    (/\ Called(fetch_result)
     /\ HasConfig
     /\ ~CountOutcome.ok) =>
        IF /\ CountOutcome.exc = "ValueError"
           /\ published_param_count_b # Null
           /\ resolve_text_config(raw_config).ok
           /\ KvOutcome.ok
        THEN /\ fetch_result.ok
             /\ fetch_result.precision =
                   (IF DetectOutcome.ok THEN DetectOutcome.dtype_str
                    ELSE NoPrecision)
             /\ fetch_result.learnable_params_b = published_param_count_b
             /\ fetch_result.active_params_b = Null
        ELSE ~fetch_result.ok

\* C13 (as claimed): counting and precision classification fail
\* independently: in fetch_model a failure of detect_precision does not
\* prevent the counts from being reported (precision unset), a failure of
\* count_params_from_config does not prevent the precision from being
\* reported, and the outcome of detect_precision does not depend on the
\* registration of model_type or on any parameter-counting field.
C13_IndependentFailures ==
    /\ [](CountsSurvivePrecisionFailure /\ PrecisionSurvivesCountFailure)
    /\ [][PrecisionIgnoresCounting]_vars

\* C13 (amended): the outcome of detect_precision does not depend on the
\* registration of model_type or on any parameter-counting field, and in
\* fetch_model a failure of detect_precision leaves the counts reported
\* with precision unset; a failure of count_params_from_config is survived,
\* with the precision reported, exactly when it is a ValueError, a
\* published parameter count is available and the KV fields can be
\* extracted, and otherwise fetch_model raises.
C13_Amended ==
    /\ [](CountsSurvivePrecisionFailure /\ CountFailureNeedsPublishedCount)
    /\ [][PrecisionIgnoresCounting]_vars

\* C13 witness: counting failed, the published count stood in, and the
\* precision label is reported
C13_Witness ==
    /\ Called(fetch_result)
    /\ fetch_result.ok
    /\ ~CountOutcome.ok
    /\ fetch_result.learnable_params_b = 10
    /\ fetch_result.precision = Str("BF16")

\* ------------------------------------------------------------------------
\* Properties of detect_precision
\* ------------------------------------------------------------------------

Classified == Called(precision_result) /\ resolve_text_config(raw_config).ok

HasQuantBlock == "quantization_config" \in DOMAIN Resolved

\* the dtype string the configuration declares: torch_dtype, else the
\* dtype alias, else none (printed as 'None')
Declared ==
    IF "torch_dtype" \in DOMAIN Resolved THEN Resolved["torch_dtype"]
    ELSE IF "dtype" \in DOMAIN Resolved THEN Resolved["dtype"]
    ELSE "None"

UnknownDtypeError == Raised("ValueError", "unknown_torch_dtype", Declared, "")

\* C14: without a quantization block the declared dtype (torch_dtype, or
\* the dtype alias when torch_dtype is absent) decides: bfloat16 gives
\* (2.0, "BF16"), float16 (2.0, "FP16"), float32 (4.0, "FP32"), never
\* mixed; any other dtype string, or none, raises "Unknown torch_dtype=..."
\* and no PrecisionInfo is returned.
C14_DeclaredDtypeTable ==
    (Classified /\ ~HasQuantBlock) =>
        precision_result =
            IF Declared = "bfloat16" THEN PrecisionInfo(16, Str("BF16"), FALSE)
            ELSE IF Declared = "float16" THEN PrecisionInfo(16, Str("FP16"), FALSE)
            ELSE IF Declared = "float32" THEN PrecisionInfo(32, Str("FP32"), FALSE)
            ELSE UnknownDtypeError

\* C14 witness: a configuration without torch_dtype classified through the
\* dtype alias
C14_Witness ==
    /\ Classified /\ ~HasQuantBlock
    /\ "torch_dtype" \notin DOMAIN Resolved
    /\ "dtype" \in DOMAIN Resolved
    /\ precision_result = PrecisionInfo(16, Str("FP16"), FALSE)

QuantBlock == Resolved["quantization_config"]

Method ==
    IF "quant_method" \in DOMAIN QuantBlock THEN QuantBlock["quant_method"] ELSE ""

Groups ==
    IF "config_groups" \in DOMAIN QuantBlock THEN QuantBlock["config_groups"]
    ELSE <<>>

\* the group exposes a usable bit-width and a usable type label
Exposes(group) ==
    /\ "weights" \in DOMAIN group
    /\ {"num_bits", "type"} \subseteq DOMAIN group["weights"]
    /\ group["weights"]["num_bits"] > 0
    /\ group["weights"]["type"] # <<>>

ExposingGroups == {g \in 1..Len(Groups) : Exposes(Groups[g])}

FirstExposing == CHOOSE g \in ExposingGroups : \A h \in ExposingGroups : g <= h

\* what Python prints for type.upper() on the weight type labels met here:
\* <<label, upper-cased label>>.  181 is the micro sign, whose upper-case
\* form is the Greek capital mu (924); 233 is e with acute (201); 223 is the
\* sharp s, which becomes SS; 66600 is the Deseret small letter long i,
\* outside the Basic Multilingual Plane (66560)
UpperCasedLabels ==
    <<<<Str("int"), Str("INT")>>, <<Str("float"), Str("FLOAT")>>,
      <<Str("nvFP"), Str("NVFP")>>, <<Str("e4m3"), Str("E4M3")>>,
      <<<<181, 233>>, <<924, 201>>>>,
      <<<<102, 223, 66600>>, <<70, 83, 83, 66560>>>>>>

UpperCased(label) ==
    UpperCasedLabels[CHOOSE i \in DOMAIN UpperCasedLabels :
                        UpperCasedLabels[i][1] = label][2]

\* the decimal digit that prints a bit-width below ten
Digit(bits) == <<48 + bits>>

\* C15: with quant_method "compressed-tensors" the result comes from the
\* first weight group, in config_groups order, that exposes both a
\* bit-width and a type label: bytes_per_param = bits / 8 and the label is
\* the upper-cased type followed by the bits; is_mixed holds exactly when
\* the 'ignore' list of the block is non-empty; when no group exposes both,
\* an error is raised and no PrecisionInfo is returned.
C15_CompressedTensors ==
    (Classified /\ HasQuantBlock /\ Method = "compressed-tensors") =>
        IF ExposingGroups = {}
        THEN precision_result
                = Raised("ValueError", "unparseable_config_groups", "", "")
        ELSE LET weights == Groups[FirstExposing]["weights"]
             IN  /\ precision_result.ok
                 /\ precision_result.bytes_per_param_x8 = weights["num_bits"]
                 /\ weights["num_bits"] < 10
                 /\ precision_result.dtype_str
                       = UpperCased(weights["type"]) \o Digit(weights["num_bits"])
                 /\ precision_result.is_mixed
                       <=> ("ignore" \in DOMAIN QuantBlock
                            /\ QuantBlock["ignore"] # <<>>)

\* C15 witness: 4-bit weights (0.5 bytes per parameter) of a type written
\* with the micro sign and e with acute, labelled with the Greek capital mu,
\* E with acute and the digit 4, with a non-empty ignore list
C15_Witness ==
    /\ Classified /\ HasQuantBlock /\ Method = "compressed-tensors"
    /\ ExposingGroups # {}
    /\ Groups[FirstExposing]["weights"]["type"] = <<181, 233>>
    /\ precision_result = PrecisionInfo(4, <<924, 201, 52>>, TRUE)

\* the effective configuration without its declared dtype
WithoutDtype == DelKey(DelKey(Resolved, "torch_dtype"), "dtype")

\* C16: with a quantization block the method decides and the declared
\* dtype is ignored: "fp8" gives (1.0, "FP8"), not mixed, also when
\* torch_dtype is set, and every method other than "fp8" and
\* "compressed-tensors", a missing one included, raises
\* "Unknown quant_method='<m>'" naming the method.
C16_QuantMethodDecides ==
    (Classified /\ HasQuantBlock) =>
        /\ precision_result = DetectResolved(WithoutDtype)
        /\ Method = "fp8" => precision_result = PrecisionInfo(8, Str("FP8"), FALSE)
        /\ Method \notin {"fp8", "compressed-tensors"} =>
              precision_result
                 = Raised("ValueError", "unknown_quant_method", Method, "")

\* C16 witness: an fp8 block on a configuration that declares bfloat16
C16_Witness ==
    /\ Classified /\ HasQuantBlock
    /\ Method = "fp8"
    /\ Declared = "bfloat16"
    /\ precision_result = PrecisionInfo(8, Str("FP8"), FALSE)

\* ------------------------------------------------------------------------
\* Properties of the KV cache fields extracted by fetch_model
\* ------------------------------------------------------------------------

\* the attention family the registry gives the effective configuration
Family == KNOWN_ARCHITECTURES[ModelTypeOf(Backbone)].attn

\* C17: when fetch_model succeeds, a model registered as MLA carries the
\* configuration's kv_lora_rank and qk_rope_head_dim and no num_kv_heads or
\* head_dim; a model registered as GQA carries num_kv_heads and head_dim
\* and no kv_lora_rank or qk_rope_head_dim; attention_type is "MLA" or
\* "GQA" as in the registry; for a multimodal wrapper the fields are those
\* of the unwrapped text backbone.
C17_KvGeometryByFamily ==
    Fetched =>
        /\ ModelTypeOf(Backbone) \in DOMAIN KNOWN_ARCHITECTURES
        /\ fetch_result.num_hidden_layers = Backbone["num_hidden_layers"]
        /\ IF Family = "mla"
           THEN /\ fetch_result.attention_type = "MLA"
                /\ fetch_result.kv_lora_rank = Backbone["kv_lora_rank"]
                /\ fetch_result.qk_rope_head_dim = Backbone["qk_rope_head_dim"]
                /\ fetch_result.kv_lora_rank # Null
                /\ fetch_result.qk_rope_head_dim # Null
                /\ fetch_result.num_kv_heads = Null
                /\ fetch_result.head_dim = Null
           ELSE /\ fetch_result.attention_type = "GQA"
                /\ fetch_result.num_kv_heads = Backbone["num_key_value_heads"]
                /\ fetch_result.num_kv_heads # Null
                /\ fetch_result.head_dim # Null
                /\ fetch_result.kv_lora_rank = Null
                /\ fetch_result.qk_rope_head_dim = Null

\* C17 witness: a multimodal wrapper whose MLA fields were read from the
\* text backbone
C17_Witness ==
    /\ Fetched
    /\ ModelTypeOf(raw_config) \in MULTIMODAL_MODEL_TYPES
    /\ fetch_result.attention_type = "MLA"
    /\ fetch_result.kv_lora_rank = 2
    /\ fetch_result.qk_rope_head_dim = 1

\* the effective configuration has the KV geometry of DEEPSEEK_V32_CONFIG
DeepSeekGeometry ==
    /\ Family = "mla"
    /\ Backbone["num_hidden_layers"] = 61
    /\ Backbone["kv_lora_rank"] = 512
    /\ Backbone["qk_rope_head_dim"] = 64

\* the effective configuration has the KV geometry of GLM_47_CONFIG
GlmGeometry ==
    /\ Family = "gqa"
    /\ Backbone["num_hidden_layers"] = 92
    /\ Backbone["num_key_value_heads"] = 8
    /\ "head_dim" \in DOMAIN Backbone
    /\ Backbone["head_dim"] = 128

\* C18: the KV cache bytes per token computed from the fields fetch_model
\* extracts are 61 x (512 + 64) x 2 = 70,272 for the DeepSeek-V3.2
\* geometry and 2 x 92 x 8 x 128 x 2 = 376,832 for the GLM GQA geometry.
C18_KvBytesPerToken ==
    Fetched =>
        /\ DeepSeekGeometry => KvBytesPerToken(fetch_result) = 70272
        /\ GlmGeometry => KvBytesPerToken(fetch_result) = 376832

\* C18 witness: the GLM geometry was fetched and gives 376,832 bytes
C18_Witness ==
    /\ Fetched
    /\ GlmGeometry
    /\ KvBytesPerToken(fetch_result) = 376832

\* C18 witness, MLA side: the DeepSeek geometry gives 70,272 bytes
C18_WitnessMla ==
    /\ Fetched
    /\ DeepSeekGeometry
    /\ KvBytesPerToken(fetch_result) = 70272

\* number of full-attention layers ('*') of a layer pattern
RECURSIVE AttentionLayersIn(_)
AttentionLayersIn(pattern) ==
    IF pattern = <<>> THEN 0
    ELSE (IF Head(pattern) = "*" THEN 1 ELSE 0) + AttentionLayersIn(Tail(pattern))

\* C19: the ModelSpec returned by fetch_model carries num_kv_layers: for a
\* pattern-hybrid model the number of full-attention layers of the layer
\* pattern, for every other model None.
C19_HybridKvLayers ==
    Fetched =>
        /\ "num_kv_layers" \in DOMAIN fetch_result
        /\ fetch_result["num_kv_layers"] =
              IF "hybrid_override_pattern" \in DOMAIN Backbone
              THEN AttentionLayersIn(Backbone["hybrid_override_pattern"])
              ELSE Null

\* head_dim is present in the effective configuration (and not null)
ExplicitHeadDim == ~IsMissing(Backbone, "head_dim")

\* hidden_size and a non-zero num_attention_heads are present
DerivableHeadDim ==
    /\ ~IsMissing(Backbone, "hidden_size")
    /\ ~IsMissing(Backbone, "num_attention_heads")
    /\ Backbone["num_attention_heads"] # 0

\* the head dimension the rule gives: explicit, else floor(hidden / heads)
RuleHeadDim ==
    IF ExplicitHeadDim THEN Backbone["head_dim"]
    ELSE Backbone["hidden_size"] \div Backbone["num_attention_heads"]

GqaRegistered == Registered /\ Family = "gqa"

\* C20: the GQA head dimension is the explicit head_dim when present, else
\* floor(hidden_size / num_attention_heads); fetch_model's KV extraction
\* and the GQA attention cost function both apply this rule, so the count
\* of a configuration is the count of the same configuration with head_dim
\* set to the rule's value and the division is not attempted when head_dim
\* is explicit; when head_dim is absent and hidden_size or
\* num_attention_heads is missing or zero, the outcome is an error.
C20_HeadDimRule ==
    GqaRegistered =>
        /\ Fetched => fetch_result.head_dim = RuleHeadDim
        /\ (Called(count_result) /\ (ExplicitHeadDim \/ DerivableHeadDim)) =>
              /\ count_result
                    = CountResolved(SetKey(Backbone, "head_dim", RuleHeadDim))
              /\ count_result.ok \/ count_result.exc # "ZeroDivisionError"
        /\ ("head_dim" \notin DOMAIN Backbone /\ ~DerivableHeadDim) =>
              /\ Called(fetch_result) => ~fetch_result.ok
              /\ (Called(count_result) /\ Topology(Backbone) = "uniform") =>
                    ~count_result.ok

\* ------------------------------------------------------------------------
\* Properties of the per-layer cost functions
\* ------------------------------------------------------------------------

\* a GQA configuration with positive hidden_size, num_attention_heads and
\* head_dim and fewer key/value heads than query heads
GqaWithFewerKvHeads ==
    /\ GqaRegistered
    /\ \A k \in {"hidden_size", "num_attention_heads", "num_key_value_heads",
                 "head_dim"} : ~IsMissing(Resolved, k)
    /\ Resolved["hidden_size"] > 0
    /\ Resolved["num_attention_heads"] > 0
    /\ Resolved["head_dim"] > 0
    /\ Resolved["num_key_value_heads"] < Resolved["num_attention_heads"]

\* the same configuration with num_key_value_heads = num_attention_heads
FullKv == SetKey(Resolved, "num_key_value_heads", Resolved["num_attention_heads"])

\* hidden x kv_heads x head_dim: the key projection, and the value projection
KvProjection(config) ==
    config["hidden_size"] * config["num_key_value_heads"] * config["head_dim"]

\* hidden x heads x head_dim: the query projection, and the output projection
QueryProjection(config) ==
    config["hidden_size"] * config["num_attention_heads"] * config["head_dim"]

\* the layers of a counted configuration that carry full attention
AttentionLayers ==
    IF Topology(Resolved) = "uniform" THEN count_result.num_layers
    ELSE count_result.num_attention_layers

\* C21: for positive hidden_size, num_attention_heads and head_dim, a
\* configuration with num_key_value_heads < num_attention_heads has a
\* strictly smaller key projection and value projection (each hidden x
\* kv_heads x head_dim) and a strictly smaller per-layer GQA attention cost
\* than the same configuration with num_key_value_heads =
\* num_attention_heads; the query and output projections (each hidden x
\* heads x head_dim) are the same in both; a counted configuration's total
\* differs by the saving on each of its attention layers.
C21_GqaKvSaving ==
    GqaWithFewerKvHeads =>
        /\ KvProjection(Resolved) < KvProjection(FullKv)
        /\ _gqa_attention_params(Resolved)
              = 2 * QueryProjection(Resolved) + 2 * KvProjection(Resolved)
        /\ _gqa_attention_params(FullKv)
              = 2 * QueryProjection(Resolved) + 2 * KvProjection(FullKv)
        /\ _gqa_attention_params(Resolved) < _gqa_attention_params(FullKv)
        /\ Counted =>
              /\ CountResolved(FullKv).ok
              /\ CountResolved(FullKv).total_params - count_result.total_params
                    = AttentionLayers * (_gqa_attention_params(FullKv)
                                         - _gqa_attention_params(Resolved))

\* C21 witness: a counted GQA configuration with 8 key/value heads for 96
\* query heads, whose total is below that of the full-KV configuration
C21_Witness ==
    /\ GqaWithFewerKvHeads
    /\ Counted
    /\ Resolved["num_attention_heads"] = 96
    /\ Resolved["num_key_value_heads"] = 8
    /\ count_result.total_params < CountResolved(FullKv).total_params

\* the seven fields the MLA attention cost reads
MlaCostKeys ==
    {"hidden_size", "num_attention_heads", "kv_lora_rank", "q_lora_rank",
     "qk_nope_head_dim", "qk_rope_head_dim", "v_head_dim"}

\* an MLA configuration that carries the seven fields
MlaComplete ==
    /\ Registered
    /\ Family = "mla"
    /\ \A k \in MlaCostKeys : ~IsMissing(Resolved, k)

\* the closed form of the MLA per-layer cost
MlaClosedForm(hidden, heads, kv_rank, q_rank, nope, rope, v) ==
    hidden * q_rank + q_rank + q_rank * heads * (nope + rope)
    + hidden * (kv_rank + rope) + kv_rank + kv_rank * heads * (nope + v)
    + heads * v * hidden

\* the values a field is raised to: every value up to MaxVal + 1 above it,
\* and its successor
RaisedValues(key) ==
    {v \in 0..(MaxVal + 1) : v > Resolved[key]} \cup {Resolved[key] + 1}

\* C22: the MLA per-layer attention cost depends only on hidden_size,
\* num_attention_heads, kv_lora_rank, q_lora_rank, qk_nope_head_dim,
\* qk_rope_head_dim and v_head_dim, equals the closed form
\* hidden*q_rank + q_rank + q_rank*heads*(nope+rope) + hidden*(kv_rank+rope)
\* + kv_rank + kv_rank*heads*(nope+v) + heads*v*hidden, does not decrease
\* when one of the seven fields is raised with the others fixed, and
\* strictly increases when kv_lora_rank is raised; the total of a counted
\* configuration grows by that increase on each attention layer.
C22_MlaCost ==
    MlaComplete =>
        /\ _mla_attention_params(Resolved)
              = MlaClosedForm(Resolved["hidden_size"], Resolved["num_attention_heads"],
                              Resolved["kv_lora_rank"], Resolved["q_lora_rank"],
                              Resolved["qk_nope_head_dim"], Resolved["qk_rope_head_dim"],
                              Resolved["v_head_dim"])
        /\ \A k \in (DOMAIN Resolved \cup IntKeys) \ MlaCostKeys :
              /\ _mla_attention_params(DelKey(Resolved, k))
                    = _mla_attention_params(Resolved)
              /\ \A v \in IntValues :
                    _mla_attention_params(SetKey(Resolved, k, v))
                       = _mla_attention_params(Resolved)
        /\ \A k \in MlaCostKeys : \A v \in RaisedValues(k) :
              _mla_attention_params(SetKey(Resolved, k, v))
                 >= _mla_attention_params(Resolved)
        /\ \A v \in RaisedValues("kv_lora_rank") :
              _mla_attention_params(SetKey(Resolved, "kv_lora_rank", v))
                 > _mla_attention_params(Resolved)
        /\ (Counted /\ Topology(Resolved) # "interval") =>
              LET more == SetKey(Resolved, "kv_lora_rank", Resolved["kv_lora_rank"] + 1)
              IN  /\ CountResolved(more).ok
                  /\ CountResolved(more).total_params - count_result.total_params
                        = AttentionLayers * (_mla_attention_params(more)
                                             - _mla_attention_params(Resolved))

\* C22 witness: a counted MLA configuration with hidden_size 0, where only
\* the normalization term makes the cost grow with kv_lora_rank
C22_Witness ==
    /\ MlaComplete
    /\ Counted
    /\ Resolved["hidden_size"] = 0
    /\ Resolved["num_hidden_layers"] > 0
    /\ count_result.total_params
          < CountResolved(SetKey(Resolved, "kv_lora_rank",
                                 Resolved["kv_lora_rank"] + 1)).total_params

\* ------------------------------------------------------------------------
\* Counts at published scale (ScaleSpec)
\* ------------------------------------------------------------------------

\* the fields of DEEPSEEK_V32_CONFIG that the count reads
DeepSeekCountingKeys ==
    DOMAIN DEEPSEEK_V32_CONFIG \ {"quantization_config", "torch_dtype"}

\* raw_config has the DeepSeek-V3.2 dimensions
IsDeepSeekV32 ==
    /\ DeepSeekCountingKeys \subseteq DOMAIN raw_config
    /\ \A k \in DeepSeekCountingKeys : raw_config[k] = DEEPSEEK_V32_CONFIG[k]

\* |n - centre_b x 10^9| < centre_b x 10^9 / parts
WithinFraction(n, centre_b, parts) ==
    /\ BigLess(Prod(<<centre_b, parts - 1, 1000, 1000, 1000>>), BigMul(n, parts))
    /\ BigLess(BigMul(n, parts), Prod(<<centre_b, parts + 1, 1000, 1000, 1000>>))

\* every integer field of the configuration is small enough for the
\* composer on plain integers
SmallScale ==
    /\ Registered
    /\ \A k \in DOMAIN Resolved \cap IntKeys : Resolved[k] <= 4

\* a count on digits is the count on plain integers
SameCount(exact, plain) ==
    IF ~plain.ok THEN exact = plain
    ELSE exact = [plain EXCEPT !.total_params = Big(plain.total_params),
                               !.active_params = Big(plain.active_params),
                               !.routed_expert_params = Big(plain.routed_expert_params)]

\* C23: for the DeepSeek-V3.2 configuration count_params_from_config
\* returns total_params within 5% of 671e9 and active_params within 10% of
\* 37e9, with num_dense_layers = 3 and num_moe_layers = 58.  (On the
\* scaled-down configurations the count on digits is the count on plain
\* integers.)
C23_DeepSeekScale ==
    /\ (Called(count_result) /\ IsDeepSeekV32) =>
          /\ count_result.ok
          /\ WithinFraction(count_result.total_params, 671, 20)
          /\ WithinFraction(count_result.active_params, 37, 10)
          /\ count_result.num_dense_layers = 3
          /\ count_result.num_moe_layers = 58
          /\ count_result.num_layers = 61
    /\ (Called(count_result) /\ SmallScale) =>
          SameCount(count_result, CountResolved(Resolved))

\* C23 witness: DEEPSEEK_V32_CONFIG was counted: 671,129,193,472 in total
C23_Witness ==
    /\ raw_config = DEEPSEEK_V32_CONFIG
    /\ Counted
    /\ count_result.total_params = <<472, 193, 129, 671>>

\* ------------------------------------------------------------------------
\* Properties of the layer composers
\* ------------------------------------------------------------------------

\* the registry entry of the resolved configuration
Arch == KNOWN_ARCHITECTURES[ModelTypeOf(Resolved)]

\* what a composer produces on the resolved configuration: its first
\* failing operation, or its value
PatternOutcome ==
    LET steps == _count_hybrid_steps(Resolved, Arch.attn, Arch.mapping)
    IN  IF ~FirstFailure(Resolved, steps, 1).ok THEN FirstFailure(Resolved, steps, 1)
        ELSE _count_hybrid_params(Resolved, Arch.attn, Arch.mapping)

IntervalOutcome ==
    LET steps == _count_interval_hybrid_steps(Arch.mapping)
    IN  IF ~FirstFailure(Resolved, steps, 1).ok THEN FirstFailure(Resolved, steps, 1)
        ELSE _count_interval_hybrid_params(Resolved, Arch.mapping)

UniformOutcome ==
    LET steps == _count_uniform_steps(Resolved, Arch.attn, Arch.mapping)
    IN  IF ~FirstFailure(Resolved, steps, 1).ok THEN FirstFailure(Resolved, steps, 1)
        ELSE _count_uniform_params(Resolved, Arch.attn, Arch.mapping)

HasPattern == "hybrid_override_pattern" \in DOMAIN Resolved

HasInterval == "full_attention_interval" \in DOMAIN Resolved

\* C24: once the registry lookup has succeeded, a configuration containing
\* the key hybrid_override_pattern is counted by the pattern-hybrid
\* composer (also when full_attention_interval > 1 is present); otherwise
\* one with full_attention_interval > 1 by the interval-hybrid composer;
\* otherwise (interval absent, 0 or 1) by the uniform composer.  The
\* result carries the layer counters of that one composer.
C24_TopologyPriority ==
    (Called(count_result) /\ Registered) =>
        IF HasPattern
        THEN /\ count_result = PatternOutcome
             /\ count_result.ok =>
                   /\ count_result.num_layers = Len(Resolved["hybrid_override_pattern"])
                   /\ count_result.num_attention_layers
                         = AttentionLayersIn(Resolved["hybrid_override_pattern"])
        ELSE IF HasInterval /\ Resolved["full_attention_interval"] > 1
        THEN /\ count_result = IntervalOutcome
             /\ count_result.ok =>
                   /\ count_result.num_moe_layers = count_result.num_layers
                   /\ count_result.num_mamba_layers + count_result.num_attention_layers
                         = count_result.num_layers
        ELSE (~HasInterval \/ Resolved["full_attention_interval"] \in {0, 1}) =>
             /\ count_result = UniformOutcome
             /\ count_result.ok =>
                   /\ count_result.num_mamba_layers = 0
                   /\ count_result.num_attention_layers = 0

\* C24 witness: a counted configuration with both a layer pattern holding
\* one full-attention layer and full_attention_interval = 2, for which the
\* interval composer would have reported none
C24_Witness ==
    /\ Counted
    /\ HasPattern
    /\ HasInterval
    /\ Resolved["full_attention_interval"] = 2
    /\ Resolved["num_hidden_layers"] = 2
    /\ Resolved["hybrid_override_pattern"] = <<"*", "*">>
    /\ count_result.num_attention_layers = 2

\* the occurrences of the given characters in the layer pattern
Occurrences(chars) ==
    Cardinality({i \in 1..Len(Resolved["hybrid_override_pattern"]) :
                    Resolved["hybrid_override_pattern"][i] \in chars})

\* n layers of a mixer: the mixer's fields are only read when n > 0
Layers(n, mixer_cost) == IF n = 0 THEN 0 ELSE n * mixer_cost

\* embedding, output head and final normalization
OutsideLayers ==
    Resolved["vocab_size"] * Resolved["hidden_size"] + lm_head_params(Resolved)
    + Resolved["hidden_size"]

\* C25: in the pattern-hybrid topology 'M' selects a state-space layer, '*'
\* a full-attention layer, '-' a dense FFN layer and any other character an
\* MoE layer; each layer adds one normalization (hidden) plus its mixer
\* cost; non-MoE layers add the same to total and active; and
\* num_mamba_layers + num_attention_layers + num_dense_layers +
\* num_moe_layers = num_layers.  In the uniform topology num_moe_layers +
\* num_dense_layers = num_layers and the two hybrid counters are 0.
C25_PatternLayerKinds ==
    (Counted /\ Registered) =>
        /\ HasPattern =>
              LET hidden == Resolved["hidden_size"]
                  n_mamba == Occurrences({"M"})
                  n_attn == Occurrences({"*"})
                  n_dense == Occurrences({"-"})
                  n_moe == Occurrences(PatternChars \ {"M", "*", "-"})
                  shared_layers ==
                      Layers(n_mamba, _mamba2_layer_params(Resolved))
                      + Layers(n_attn, attn_fn(Resolved, Arch.attn))
                      + Layers(n_dense,
                               Arch.mapping.num_mlp_projections * hidden
                               * Resolved["intermediate_size"])
                      + count_result.num_layers * hidden
              IN  /\ count_result.num_mamba_layers = n_mamba
                  /\ count_result.num_attention_layers = n_attn
                  /\ count_result.num_dense_layers = n_dense
                  /\ count_result.num_moe_layers = n_moe
                  /\ n_mamba + n_attn + n_dense + n_moe = count_result.num_layers
                  /\ count_result.total_params
                        = OutsideLayers + shared_layers
                          + Layers(n_moe, _moe_layer_params(Resolved, Arch.mapping, Null))
                  /\ count_result.active_params
                        = OutsideLayers + shared_layers
                          + Layers(n_moe, _moe_layer_params(Resolved, Arch.mapping,
                                              Resolved["num_experts_per_tok"]))
        /\ Topology(Resolved) = "uniform" =>
              /\ count_result.num_moe_layers + count_result.num_dense_layers
                    = count_result.num_layers
              /\ count_result.num_mamba_layers = 0
              /\ count_result.num_attention_layers = 0

\* C25 witness: a counted pattern of a state-space layer and a layer whose
\* character is none of the four named ones, counted as MoE
C25_Witness ==
    /\ Counted
    /\ HasPattern
    /\ Resolved["hybrid_override_pattern"] = <<"M", "X">>
    /\ count_result.num_mamba_layers = 1
    /\ count_result.num_moe_layers = 1
    /\ count_result.total_params > count_result.active_params

\* ------------------------------------------------------------------------
\* Properties of the MoE block
\* ------------------------------------------------------------------------

\* P x hidden x expert_intermediate: one routed expert, with the registry
\* entry's number of projections
OneExpert ==
    Arch.mapping.num_mlp_projections * Resolved["hidden_size"]
    * Resolved[Arch.mapping.expert_intermediate_key]

ExpertCount == Resolved[Arch.mapping.expert_count_key]

\* C26: in every topology, for a successful result, total_params -
\* active_params = num_moe_layers x (expert_count - num_experts_per_tok) x
\* P x hidden_size x expert_intermediate_size, P being the registry entry's
\* num_mlp_projections: every other term is the same in both counts.
C26_TotalMinusActive ==
    (Counted /\ Registered) =>
        count_result.total_params - count_result.active_params
           = Layers(count_result.num_moe_layers,
                    (ExpertCount - Resolved["num_experts_per_tok"]) * OneExpert)

\* C26 witness: an interval-hybrid configuration counted with 4 experts of
\* which 2 are active, and a non-zero difference
C26_Witness ==
    /\ Counted
    /\ Registered
    /\ Topology(Resolved) = "interval"
    /\ ExpertCount = 4
    /\ Resolved["num_experts_per_tok"] = 2
    /\ count_result.total_params - count_result.active_params
          = count_result.num_layers * 2 * OneExpert
    /\ count_result.total_params > count_result.active_params

\* C27: in every topology and for every registered architecture,
\* routed_expert_params = num_moe_layers x expert_count x P x hidden_size x
\* expert_intermediate_size, P being the registry entry's
\* num_mlp_projections (3 gated, 2 ungated).
C27_RoutedExpertParams ==
    (Counted /\ Registered) =>
        count_result.routed_expert_params
           = Layers(count_result.num_moe_layers, ExpertCount * OneExpert)

\* an architecture of the registry with every field the MoE block reads
MoeComplete ==
    /\ Registered
    /\ \A k \in {"hidden_size", "num_experts_per_tok",
                 Arch.mapping.expert_count_key,
                 Arch.mapping.expert_intermediate_key,
                 Arch.mapping.shared_expert_key} : ~IsMissing(Resolved, k)

\* the shared-expert field of the architecture is a count of experts; the
\* other three shared-expert fields of the registry are intermediate sizes
SharedIsCount == Arch.mapping.shared_expert_key = "n_shared_experts"

\* the shared-expert cost for a value of the shared-expert field
SharedCost(value) ==
    IF SharedIsCount THEN value * OneExpert
    ELSE IF value > 0
    THEN Arch.mapping.num_mlp_projections * Resolved["hidden_size"] * value
    ELSE 0

\* the MoE block with k routed experts counted
MoeBlock(k) ==
    k * OneExpert + Resolved["hidden_size"] * ExpertCount
    + SharedCost(Resolved[Arch.mapping.shared_expert_key])

\* the configuration with the shared-expert field raised by one
MoreShared ==
    SetKey(Resolved, Arch.mapping.shared_expert_key,
           Resolved[Arch.mapping.shared_expert_key] + 1)

\* C28: the MoE block of one layer costs k x P x hidden x
\* expert_intermediate + hidden x expert_count + shared, with k the
\* active-expert count for active parameters and expert_count otherwise;
\* shared = count x P x hidden x expert_intermediate where the registry's
\* shared-expert field is a count, and P x hidden x size (0 for size 0)
\* where it is a size; an architecture follows one convention only, and a
\* counted configuration's total and active grow with the shared-expert
\* field by that convention's amount on each MoE layer.
C28_MoeBlock ==
    MoeComplete =>
        /\ Arch.mapping.shared_expert_is_count = SharedIsCount
        /\ _moe_layer_params(Resolved, Arch.mapping, Null) = MoeBlock(ExpertCount)
        /\ _moe_layer_params(Resolved, Arch.mapping, Resolved["num_experts_per_tok"])
              = MoeBlock(Resolved["num_experts_per_tok"])
        /\ Counted =>
              LET step == SharedCost(Resolved[Arch.mapping.shared_expert_key] + 1)
                          - SharedCost(Resolved[Arch.mapping.shared_expert_key])
              IN  /\ CountResolved(MoreShared).ok
                  /\ CountResolved(MoreShared).total_params - count_result.total_params
                        = count_result.num_moe_layers * step
                  /\ CountResolved(MoreShared).active_params - count_result.active_params
                        = count_result.num_moe_layers * step

\* C28 witness: a counted architecture whose shared-expert field is a size,
\* at size 0 (no shared expert), with experts of intermediate size 4
C28_Witness ==
    /\ MoeComplete
    /\ Counted
    /\ ~SharedIsCount
    /\ Resolved[Arch.mapping.shared_expert_key] = 0
    /\ Resolved[Arch.mapping.expert_intermediate_key] = 4
    /\ count_result.num_moe_layers > 0
    /\ CountResolved(MoreShared).total_params > count_result.total_params

\* ------------------------------------------------------------------------
\* Properties of the uniform composer's optional terms
\* ------------------------------------------------------------------------

\* the module-count fields of the registry
MtpKeys == {"num_nextn_predict_layers", "num_mtp_modules"}

\* 2 x hidden^2 + 4 x hidden
MtpModule ==
    2 * Resolved["hidden_size"] * Resolved["hidden_size"]
    + 4 * Resolved["hidden_size"]

\* the counts with every field but total_params and active_params
Shape(result) == [result EXCEPT !.total_params = 0, !.active_params = 0]

\* the result for the configuration without the given key
Without(key) == CountResolved(DelKey(Resolved, key))

\* C29: in the uniform topology, when the registry entry has an MTP key
\* and the configuration's module count m is > 0, exactly m x (2 x hidden^2
\* + 4 x hidden) is added to both total_params and active_params; when the
\* entry has no MTP key, or the field is absent, null or 0, MTP adds 0 and
\* its absence is not an error.
C29_MtpModules ==
    (Counted /\ Registered /\ Topology(Resolved) = "uniform") =>
        /\ Arch.mapping.mtp_key # NoKey =>
              LET key == Arch.mapping.mtp_key
                  m == IF IsMissing(Resolved, key) THEN 0 ELSE Resolved[key]
              IN  /\ Without(key).ok
                  /\ Shape(Without(key)) = Shape(count_result)
                  /\ count_result.total_params
                        = Without(key).total_params + m * MtpModule
                  /\ count_result.active_params
                        = Without(key).active_params + m * MtpModule
                  /\ CountResolved(SetKey(Resolved, key, Null)) = Without(key)
                  /\ CountResolved(SetKey(Resolved, key, 0)) = Without(key)
        /\ Arch.mapping.mtp_key = NoKey =>
              \A key \in MtpKeys : \A m \in IntValues :
                  /\ Without(key) = count_result
                  /\ CountResolved(SetKey(Resolved, key, m)) = count_result

\* C29 witness: an architecture with an MTP key counted with 2 modules,
\* which add 2 x (2 x 2^2 + 4 x 2) = 32 to the total
C29_Witness ==
    /\ Counted
    /\ Registered
    /\ Topology(Resolved) = "uniform"
    /\ Arch.mapping.mtp_key = "num_mtp_modules"
    /\ Resolved["num_mtp_modules"] = 2
    /\ Resolved["hidden_size"] = 2
    /\ count_result.total_params = Without("num_mtp_modules").total_params + 32

\* both indexer fields are present
HasIndexer == ~IsMissing(Resolved, "index_n_heads") /\ ~IsMissing(Resolved, "index_head_dim")

\* 2 x hidden x (n x d) + (n x d) x n + 2 x d, or 0 without the two fields
IndexerTerm ==
    IF HasIndexer
    THEN 2 * Resolved["hidden_size"]
           * (Resolved["index_n_heads"] * Resolved["index_head_dim"])
         + (Resolved["index_n_heads"] * Resolved["index_head_dim"])
           * Resolved["index_n_heads"]
         + 2 * Resolved["index_head_dim"]
    ELSE 0

WithoutIndexer ==
    CountResolved(DelKey(DelKey(Resolved, "index_n_heads"), "index_head_dim"))

\* the indexer term is added once per layer to total and active
IndexerOnEveryLayer ==
    /\ WithoutIndexer.ok
    /\ Shape(WithoutIndexer) = Shape(count_result)
    /\ count_result.total_params
          = WithoutIndexer.total_params + count_result.num_layers * IndexerTerm
    /\ count_result.active_params
          = WithoutIndexer.active_params + count_result.num_layers * IndexerTerm

\* C30: the per-layer indexer term is 0 unless both index_n_heads and
\* index_head_dim are present, in which case it is 2 x hidden x
\* (index_n_heads x index_head_dim) + (index_n_heads x index_head_dim) x
\* index_n_heads + 2 x index_head_dim; it is added once per layer, to every
\* layer of the model, in both total_params and active_params.
C30_IndexerOverhead ==
    (Counted /\ Registered) => IndexerOnEveryLayer

\* the same statement for the uniform topology only
IndexerInUniformTopology ==
    (Counted /\ Registered /\ Topology(Resolved) = "uniform") => IndexerOnEveryLayer

====
